---- MODULE Spec2Model ----
(***************************************************************************)
(* Turn-based flight-search workflow of FastTravelGraph: the LangGraph     *)
(* state graph of graph.py, the workflow steps of nodes.py and the turn    *)
(* driver of main.py.                                                      *)
(*                                                                         *)
(* Encoding of Python values:                                              *)
(*   None            <<>>            Some(v)   <<v>>                       *)
(*   date text "YYYY-MM-DD"          <<y, m, d>>  (the three numbers of    *)
(*                                   the text; strptime may reject them)   *)
(*   timestamp "YYYY-MM-DDTHH:MM:SS" <<y, m, d, hh, mm>>                   *)
(*   a parsed date                   its day ordinal (an integer)          *)
(*   a message                       its sequence of tokens                *)
(***************************************************************************)
EXTENDS Integers, Sequences, FiniteSets, TLC

VARIABLES
    pc,        \* the step the graph runs next; "idle" between turns
    st,        \* the FlightSearchState dict threaded through the turn
    cache,     \* nodes._recent_offers_by_thread
    raised,    \* the step whose exception left the graph, or "none"
    sent,      \* the provider requests posted in this turn
    search,    \* the fan-out of search_flights: bodies, replies, completion order
    hotel,     \* the dict returned by selection_nodes in this turn
    response,  \* what chat_endpoint answered for the last turn
    store,     \* main.conversation_store: per thread, the assistant messages
               \* at the end of its history, as far as a specification
               \* follows them; in SpecStore the dict _conversations itself
    lookup,    \* what the language model answered to the airport-code
               \* prompts of normalize_info in this turn
    call       \* a call of a function that is no step of the graph
               \* (validators.validate_date, a method of ConversationStore):
               \* its arguments and what it returned

vars == <<pc, st, cache, raised, sent, search, hotel, response, store, lookup, call>>

----------------------------------------------------------------------------
(* Bounds of the model *)

MaxDuration == 8
MaxPick == 6

----------------------------------------------------------------------------
(* Python values *)

None == <<>>
Some(v) == <<v>>
Val(x) == x[1]
Absent == <<"absent", "key">>

Today == <<2025, 8, 10>>

(* datetime: calendar arithmetic behind strptime, strftime and timedelta *)

IsLeap(y) == (y % 4 = 0 /\ y % 100 /= 0) \/ y % 400 = 0

DaysInMonth(y, m) ==
    IF m \in {4, 6, 9, 11} THEN 30
    ELSE IF m = 2 THEN (IF IsLeap(y) THEN 29 ELSE 28)
    ELSE 31

DaysInYear(y) == IF IsLeap(y) THEN 366 ELSE 365

\* datetime._days_before_year: the days of the years 1 .. y-1
DaysBeforeYear(y) ==
    (y - 1) * 365 + ((y - 1) \div 4) - ((y - 1) \div 100) + ((y - 1) \div 400)

RECURSIVE DaysBeforeMonth(_, _)
DaysBeforeMonth(y, m) ==
    IF m <= 1 THEN 0 ELSE DaysBeforeMonth(y, m - 1) + DaysInMonth(y, m - 1)

\* strptime(text, "%Y-%m-%d") succeeds
ParsesAsDate(t) ==
    /\ Len(t) = 3
    /\ t[1] \in 1..9999
    /\ t[2] \in 1..12
    /\ t[3] \in 1..DaysInMonth(t[1], t[2])

\* strptime(text, "%Y-%m-%d"): the parsed date as its ordinal (date.toordinal)
Strptime(t) == DaysBeforeYear(t[1]) + DaysBeforeMonth(t[1], t[2]) + t[3]

RECURSIVE YearFrom(_, _)
\* the year of ordinal n, searched upwards from a year that is not after it
YearFrom(n, y) == IF n <= DaysBeforeYear(y + 1) THEN y ELSE YearFrom(n, y + 1)

RECURSIVE MonthOf(_, _, _)
MonthOf(n, y, m) ==
    IF n <= DaysInMonth(y, m) THEN m ELSE MonthOf(n - DaysInMonth(y, m), y, m + 1)

\* date.fromordinal(n).strftime("%Y-%m-%d"): the text of an ordinal
Strftime(n) ==
    LET y == YearFrom(n, (n \div 366) + 1)
        r == n - DaysBeforeYear(y)
        m == MonthOf(r, y, 1)
    IN  <<y, m, r - DaysBeforeMonth(y, m)>>

\* datetime.fromisoformat(text) succeeds
ParsesAsIso(t) ==
    /\ Len(t) = 5
    /\ ParsesAsDate(<<t[1], t[2], t[3]>>)
    /\ t[4] \in 0..23
    /\ t[5] \in 0..59

\* datetime.fromisoformat(text).strftime("%Y-%m-%d")
IsoDate(t) == Strftime(Strptime(<<t[1], t[2], t[3]>>))

\* Python truthiness of an optional text, and of an optional number
Truthy(x) == x /= None
TruthyNum(x) == x /= None /\ Val(x) /= 0

----------------------------------------------------------------------------
(* Inputs of a turn *)

Threads == {"t1", "t2"}

\* A message is a sequence of tokens: a word, a standalone integer <<"n", k>>,
\* or digits glued to letters (no word boundary around the digits).
Word == <<"w">>
Glued == <<"x">>
Num(k) == <<"n", k>>

Messages ==
    {<<Word>>, <<Glued, Word>>, <<Word, Num(2), Num(1)>>}
        \cup {<<Num(k)>> : k \in 0..MaxPick}

RECURSIVE FirstInt(_)
\* re.search(r"\b(\d+)\b", text): the first standalone integer, or None
FirstInt(msg) ==
    IF msg = <<>> THEN None
    ELSE IF Head(msg)[1] = "n" THEN Some(Head(msg)[2])
    ELSE FirstInt(Tail(msg))

\* What the language model may put into a field of its JSON reply
LLMDates == {None, <<2025, 8, 9>>, <<2025, 8, 10>>, <<2025, 8, 13>>, <<2025, 2, 30>>}
LLMOrigins == {None, Some("New York")}
LLMDestinations == {None, Some("Paris")}
LLMCabins == {None, Some("business")}
LLMDurations == {None, Some(7)}
LLMQuestions == {None, Some([text |-> "llm question", lines |-> <<>>])}

LLMReplies ==
    [ departure_date : LLMDates, origin : LLMOrigins, destination : LLMDestinations,
      cabin_class : LLMCabins, duration : LLMDurations,
      followup_question : LLMQuestions,
      needs_followup : BOOLEAN, info_complete : BOOLEAN ]

----------------------------------------------------------------------------
(* Follow-up texts: the fixed part of the text and the lines appended to it *)

Text(t) == Some([text |-> t, lines |-> <<>>])

QNoKey == Text("I need an OpenAI API key to help you with flight bookings.")
QUnparsable ==
    Text("I had trouble understanding. Could you please tell me your departure city, destination, and preferred travel date?")
QTechnical ==
    Text("I'm having technical difficulties. Please try again with your flight details.")
QMissing ==
    Text("I still need some information to search for flights. Could you help me with the missing details?")
QNormalize ==
    Text("Sorry, I had trouble processing your flight information. Please try again.")
QToken ==
    Text("Sorry, I had trouble connecting to the flight search service. Please try again later.")
QAskDate == Text("What date would you like to depart?")
QBadDate == Text("Please provide a valid departure date.")
QNoFlights ==
    Text("No flights found for your search criteria. Would you like to try different dates or destinations?")
QFormatting == Text("Sorry, I had trouble formatting the flight results.")
QNoOffers ==
    Text("I couldn't find flight offers to choose from. Would you like me to search again or change dates?")
QBadId ==
    Text("That ID doesn't match any of the listed offers. Please choose a valid ID.")

----------------------------------------------------------------------------
(* The state of a turn *)

\* main.chat_endpoint: the state handed to graph.invoke
InitialState(thread, msg) ==
    [ thread_id |-> thread,
      current_message |-> msg,
      needs_followup |-> TRUE,
      info_complete |-> FALSE,
      node_trace |-> <<>>,
      departure_date |-> None,
      origin |-> None,
      destination |-> None,
      cabin_class |-> None,
      duration |-> None,
      followup_question |-> None,
      current_node |-> "llm_conversation",
      \* keys the driver does not set
      origin_location_code |-> None,
      destination_location_code |-> None,
      normalized_departure_date |-> None,
      normalized_cabin |-> None,
      body |-> None,
      access_token |-> Absent,
      result |-> None,
      formatted_results |-> None,
      summary |-> None ]

Traced(s, node) == [s EXCEPT !.node_trace = Append(@, node)]

\* the dict selection_nodes returns; None stands for a key it does not set
NoHotel ==
    [ returned |-> FALSE, selected_flight |-> None, city_code |-> None,
      checkin_date |-> None, checkout_date |-> None, currency |-> None,
      roomQuantty |-> None, adult |-> None, hotel_id |-> None,
      hotels_offers |-> None ]

NoResponse == [kind |-> "none"]

\* a thread without history. asked: the follow-up questions in a row that end
\* the history, each asked with the trip information incomplete; last: the
\* kind of the last assistant message
NoConversation == [asked |-> 0, last |-> "none"]

NoConversations == [t \in Threads |-> NoConversation]

\* replies: what the provider answered to each day-query
\* no such function has been called
NoCall == [op |-> "none"]

\* no airport-code prompt answered yet
NoLookup == [origin |-> None, destination |-> None]

NoSearch ==
    [phase |-> "none", bodies |-> <<>>, replies |-> <<>>, returned |-> <<>>, done |-> <<>>]

Init ==
    /\ pc = "idle"
    /\ st = InitialState("t1", <<Word>>)
    /\ cache = [t \in Threads |-> None]
    /\ raised = "none"
    /\ sent = <<>>
    /\ search = NoSearch
    /\ hotel = NoHotel
    /\ response = NoResponse
    /\ store = NoConversations
    /\ lookup = NoLookup
    /\ call = NoCall

\* main.chat_endpoint up to graph.invoke: a new turn of some thread
StartTurn(threads, messages) ==
    /\ pc = "idle"
    /\ \E thread \in threads, msg \in messages :
           st' = InitialState(thread, msg)
    /\ pc' = "llm_conversation"
    /\ raised' = "none"
    /\ sent' = <<>>
    /\ search' = NoSearch
    /\ hotel' = NoHotel
    /\ response' = NoResponse
    /\ UNCHANGED <<cache, store, lookup, call>>

----------------------------------------------------------------------------
(* nodes.llm_conversation_node *)

\* every field of the reply stored, the empty ones too
ApplyReplyAll(s, r) ==
    [s EXCEPT
        !.departure_date = r.departure_date,
        !.origin = r.origin,
        !.destination = r.destination,
        !.cabin_class = r.cabin_class,
        !.duration = r.duration,
        !.followup_question = r.followup_question,
        !.needs_followup = r.needs_followup,
        !.info_complete = r.info_complete]

\* the try block after a reply that parsed as a JSON object
ApplyReply(s, r) ==
    [s EXCEPT
        !.departure_date = IF Truthy(r.departure_date) THEN r.departure_date ELSE @,
        !.origin = IF Truthy(r.origin) THEN r.origin ELSE @,
        !.destination = IF Truthy(r.destination) THEN r.destination ELSE @,
        !.cabin_class = IF Truthy(r.cabin_class) THEN r.cabin_class ELSE @,
        !.duration = IF TruthyNum(r.duration) THEN r.duration ELSE @,
        !.followup_question = r.followup_question,
        !.needs_followup = r.needs_followup,
        !.info_complete = r.info_complete]

LLMFailed(s, question) ==
    [s EXCEPT !.followup_question = question,
              !.needs_followup = TRUE,
              !.info_complete = FALSE]

llm_conversation_node(s, outcome, reply) ==
    LET t == Traced(s, "llm_conversation")
        u == CASE outcome = "nokey" ->
                    [t EXCEPT !.followup_question = QNoKey, !.needs_followup = TRUE]
               [] outcome = "ok" -> ApplyReply(t, reply)
               [] outcome = "badjson" -> LLMFailed(t, QUnparsable)
               [] OTHER -> LLMFailed(t, QTechnical)
    IN  [u EXCEPT !.current_node = "llm_conversation"]

LLMOutcomes == {"nokey", "ok", "badjson", "error"}

LLMConversation(replies) ==
    /\ pc = "llm_conversation"
    /\ \E outcome \in LLMOutcomes, reply \in replies :
           st' = llm_conversation_node(st, outcome, reply)
    /\ pc' = "analyze_conversation"
    /\ UNCHANGED <<cache, store, raised, sent, search, hotel, response, lookup, call>>

----------------------------------------------------------------------------
(* nodes.analyze_conversation_node *)

required_fields == {"departure_date", "origin", "destination", "cabin_class"}

\* the fields the loop over required_fields finds missing
MissingFields(s) ==
    {f \in required_fields : ~Truthy(s[f])}
        \cup (IF TruthyNum(s.duration) THEN {} ELSE {"duration"})

\* the date check without the comparison with today
DateRejectedUnparsedOnly(s) ==
    /\ Truthy(s.departure_date)
    /\ ~ParsesAsDate(s.departure_date)

\* the date check: the text does not parse, or lies before today
DateRejected(s) ==
    /\ Truthy(s.departure_date)
    /\ \/ ~ParsesAsDate(s.departure_date)
       \/ Strptime(s.departure_date) < Strptime(Today)

analyze_conversation_node(s) ==
    LET t == Traced(s, "analyze_conversation")
        missing == MissingFields(t)
                     \cup (IF DateRejected(t) THEN {"departure_date"} ELSE {})
        u == IF DateRejected(t) THEN [t EXCEPT !.departure_date = None] ELSE t
        v == IF missing /= {}
             THEN [u EXCEPT !.info_complete = FALSE,
                            !.needs_followup = TRUE,
                            !.followup_question =
                                IF Truthy(u.followup_question) THEN @ ELSE QMissing]
             ELSE [u EXCEPT !.info_complete = TRUE,
                            !.needs_followup = FALSE,
                            !.followup_question = None]
    IN  [v EXCEPT !.current_node = "analyze_conversation"]

\* bool(...) of a formatted_results value or a cache entry: a non-empty list
\* <<"list", offers>> or a non-empty dict <<"amadeus", response>>
HasOffers(results) ==
    /\ results /= None
    /\ (results[1] = "list" => results[2] /= <<>>)

\* the routing without the test that there are offers to select from
check_info_complete_any_number(s, offers_by_thread) ==
    IF FirstInt(s.current_message) /= None THEN "selection_request"
    ELSE IF s.info_complete THEN "normalize_info"
    ELSE "ask_followup"

\* graph.check_info_complete
check_info_complete(s, offers_by_thread) ==
    IF /\ FirstInt(s.current_message) /= None
       /\ \/ HasOffers(s.formatted_results)
          \/ HasOffers(offers_by_thread[s.thread_id])
    THEN "selection_request"
    ELSE IF s.info_complete THEN "normalize_info"
    ELSE "ask_followup"

\* the edge with a missing field leading back to the extraction step
AfterAnalyzeAskAgain(route) ==
    CASE route = "selection_request" -> "selection"
      [] route = "normalize_info" -> "normalize_info"
      [] OTHER -> "llm_conversation"

\* the conditional edge after analyze_conversation
AfterAnalyze(route) ==
    CASE route = "selection_request" -> "selection"
      [] route = "normalize_info" -> "normalize_info"
      [] OTHER -> "END"

AnalyzeConversation ==
    /\ pc = "analyze_conversation"
    /\ st' = analyze_conversation_node(st)
    /\ pc' = AfterAnalyze(check_info_complete(st', cache))
    /\ UNCHANGED <<cache, store, raised, sent, search, hotel, response, lookup, call>>

----------------------------------------------------------------------------
(* nodes.normalize_info_node *)

\* len(location.strip()) == 3 and location.isalpha()
LooksLikeCode(location) == location \in {"cdg", "JFK"}

\* location[:3].upper() (location.upper() for a three-letter input)
FirstThreeUpper(location) ==
    CASE location = "cdg" -> "CDG"
      [] location = "JFK" -> "JFK"
      [] location = "New York" -> "NEW"
      [] location = "Paris" -> "PAR"
      [] OTHER -> "ATL"

\* the entries of airport_mappings the inputs of the model can hit
airport_mappings(location) ==
    CASE location = "New York" -> Some("JFK")
      [] location = "Paris" -> Some("CDG")
      [] OTHER -> None

\* the static table consulted before the model
normalize_location_table_first(location, answer) ==
    IF LooksLikeCode(location) THEN FirstThreeUpper(location)
    ELSE IF airport_mappings(location) /= None THEN Val(airport_mappings(location))
    ELSE IF answer /= None THEN Val(answer)
    ELSE FirstThreeUpper(location)

\* answer: the first three-letter word of the model's reply, None when the
\* call failed or the reply holds no such word
normalize_location_to_airport_code(location, answer) ==
    IF LooksLikeCode(location) THEN FirstThreeUpper(location)
    ELSE IF answer /= None THEN Val(answer)
    ELSE IF airport_mappings(location) /= None THEN Val(airport_mappings(location))
    ELSE FirstThreeUpper(location)

normalize_cabin_class(cabin) ==
    CASE cabin \in {"economy", "eco", "coach"} -> "ECONOMY"
      [] cabin \in {"business", "biz"} -> "BUSINESS"
      [] cabin \in {"first class", "first"} -> "FIRST_CLASS"
      [] OTHER -> "ECONOMY"

AirportAnswers == {None, Some("LHR")}

normalize_info_node(s, origin_answer, destination_answer) ==
    LET t == Traced(s, "normalize_info")
    IN  [t EXCEPT
            !.origin_location_code =
                IF Truthy(t.origin)
                THEN Some(normalize_location_to_airport_code(Val(t.origin), origin_answer))
                ELSE @,
            !.destination_location_code =
                IF Truthy(t.destination)
                THEN Some(normalize_location_to_airport_code(Val(t.destination),
                                                             destination_answer))
                ELSE @,
            !.normalized_departure_date =
                IF Truthy(t.departure_date) THEN t.departure_date ELSE @,
            !.normalized_cabin =
                IF Truthy(t.cabin_class)
                THEN Some(normalize_cabin_class(Val(t.cabin_class)))
                ELSE @,
            !.current_node = "normalize_info"]

NormalizeInfo ==
    /\ pc = "normalize_info"
    /\ \E a \in AirportAnswers, b \in AirportAnswers :
           /\ st' = normalize_info_node(st, a, b)
           /\ lookup' = [origin |-> a, destination |-> b]
    /\ pc' = "format_body"
    /\ UNCHANGED <<cache, store, raised, sent, search, hotel, response, call>>

----------------------------------------------------------------------------
(* nodes.format_body_node *)

Leg(id, from, to, date) ==
    [id |-> id, originLocationCode |-> from, destinationLocationCode |-> to, date |-> date]

RECURSIVE LegIds(_)
\* [od["id"] for od in origin_destinations]
LegIds(legs) == IF legs = <<>> THEN <<>> ELSE <<Head(legs).id>> \o LegIds(Tail(legs))

\* timedelta(days=int(duration)) added to the parsed text, formatted again
PlusDays(date, days) == Strftime(Strptime(date) + days)

\* the return leg flown in the direction of the outbound leg
format_flight_offers_body_one_direction(origin_location_code, destination_location_code, departure_date, cabin, duration) ==
    LET outbound == Leg("1", origin_location_code, destination_location_code,
                        departure_date)
        origin_destinations ==
            IF duration /= None
            THEN <<outbound,
                   Leg("2", origin_location_code, destination_location_code,
                       PlusDays(departure_date, Val(duration)))>>
            ELSE <<outbound>>
    IN  [ currencyCode |-> "EGP",
          originDestinations |-> origin_destinations,
          travelers |-> <<[id |-> "1", travelerType |-> "ADULT"]>>,
          maxFlightOffers |-> 5,
          cabinRestrictions |->
              <<[cabin |-> cabin, coverage |-> "MOST_SEGMENTS",
                 originDestinationIds |-> LegIds(origin_destinations)]>> ]

format_flight_offers_body(origin_location_code, destination_location_code, departure_date, cabin, duration) ==
    LET outbound == Leg("1", origin_location_code, destination_location_code,
                        departure_date)
        origin_destinations ==
            IF duration /= None
            THEN <<outbound,
                   Leg("2", destination_location_code, origin_location_code,
                       PlusDays(departure_date, Val(duration)))>>
            ELSE <<outbound>>
    IN  [ currencyCode |-> "EGP",
          originDestinations |-> origin_destinations,
          travelers |-> <<[id |-> "1", travelerType |-> "ADULT"]>>,
          maxFlightOffers |-> 5,
          cabinRestrictions |->
              <<[cabin |-> cabin, coverage |-> "MOST_SEGMENTS",
                 originDestinationIds |-> LegIds(origin_destinations)]>> ]

\* strptime of the departure date raises inside format_flight_offers_body
FormatBodyRaises(s) ==
    s.duration /= None /\ ~ParsesAsDate(s.normalized_departure_date)

format_body_node(s) ==
    LET t == Traced(s, "format_body")
    IN  [t EXCEPT
            !.body = Some(format_flight_offers_body(
                              t.origin_location_code, t.destination_location_code,
                              t.normalized_departure_date,
                              IF t.normalized_cabin = None THEN "ECONOMY"
                              ELSE Val(t.normalized_cabin),
                              t.duration)),
            !.current_node = "format_body"]

FormatBody ==
    /\ pc = "format_body"
    /\ IF FormatBodyRaises(st)
       THEN /\ st' = Traced(st, "format_body")
            /\ raised' = "format_body"
            /\ pc' = "raised"
       ELSE /\ st' = format_body_node(st)
            /\ pc' = "get_auth"
            /\ UNCHANGED raised
    /\ UNCHANGED <<cache, store, sent, search, hotel, response, lookup, call>>

----------------------------------------------------------------------------
(* nodes.get_access_token_node *)

\* "failed": the post, raise_for_status or response.json() raised;
\* "no_token": a JSON object without the key access_token
TokenOutcomes == {"ok", "no_token", "failed"}

get_access_token_node(s, outcome) ==
    LET t == Traced(s, "get_auth")
    IN  CASE outcome = "ok" ->
                [t EXCEPT !.access_token = Some("token"), !.current_node = "get_auth"]
          [] outcome = "no_token" ->
                [t EXCEPT !.access_token = None, !.current_node = "get_auth"]
          [] OTHER ->
                [t EXCEPT !.followup_question = QToken, !.needs_followup = TRUE]

GetAuth ==
    /\ pc = "get_auth"
    /\ \E outcome \in TokenOutcomes : st' = get_access_token_node(st, outcome)
    /\ pc' = "search_flights"
    /\ UNCHANGED <<cache, store, raised, sent, search, hotel, response, lookup, call>>

----------------------------------------------------------------------------
(* Provider offers *)

NotAvailable == <<>>    \* the text "N/A"
JunkPrice == <<"text", "n.a.">>    \* a price text float() rejects

Segment(from, depAt, to, arrAt, carrier, number) ==
    [ departure |-> [iataCode |-> from, at |-> depAt],
      arrival |-> [iataCode |-> to, at |-> arrAt],
      carrierCode |-> carrier, number |-> number ]

\* total: Some(n) for a numeric text, JunkPrice, None when price.total is missing
RawOffer(total, itineraries) ==
    [ id |-> None, price |-> total, currency |-> "EGP", itineraries |-> itineraries,
      search_date |-> None ]

OutDirect == <<Segment("JFK", <<2025, 8, 13, 10, 0>>, "CDG", <<2025, 8, 13, 20, 0>>, "6X", 1563)>>
OutViaKef ==
    << Segment("JFK", <<2025, 8, 13, 20, 25>>, "KEF", <<2025, 8, 14, 6, 15>>, "FI", 614),
       Segment("KEF", <<2025, 8, 14, 7, 35>>, "CDG", <<2025, 8, 14, 13, 0>>, "FI", 542) >>
BackDirect == <<Segment("CDG", <<2025, 8, 20, 10, 30>>, "JFK", <<2025, 8, 20, 12, 45>>, "6X", 1300)>>
BackViaKef ==
    << Segment("CDG", <<2025, 8, 20, 17, 0>>, "KEF", <<2025, 8, 20, 18, 30>>, "FI", 543),
       Segment("KEF", <<2025, 8, 20, 19, 55>>, "JFK", <<2025, 8, 20, 22, 10>>, "FI", 613) >>

Direct == RawOffer(Some(12139), <<[segments |-> OutDirect], [segments |-> BackDirect]>>)
ViaKef == RawOffer(Some(23576), <<[segments |-> OutViaKef], [segments |-> BackViaKef]>>)
Dear == RawOffer(Some(25184), <<[segments |-> OutViaKef], [segments |-> BackDirect]>>)
Unpriced == RawOffer(None, <<[segments |-> OutDirect], [segments |-> BackViaKef]>>)
OneWay == RawOffer(Some(9000), <<[segments |-> OutViaKef]>>)
NoItinerary == RawOffer(Some(100), <<>>)
BadPrice == RawOffer(JunkPrice, <<[segments |-> OutDirect], [segments |-> BackDirect]>>)

\* What the provider may return for one day-query
TurnReplies == {<<>>, <<Direct>>}
SearchReplies ==
    { <<>>,
      <<ViaKef, Direct>>,
      <<Dear, Direct, NoItinerary, OneWay>>,
      <<ViaKef, Direct, Dear, Unpriced, Direct, ViaKef>>,
      <<BadPrice>> }

----------------------------------------------------------------------------
(* nodes.get_flight_offers_node *)

DayOffsets == <<0, 1, 2>>

\* one pass of the loop body over the origin-destination list that
\* dict(state["body"]) shares with state["body"]
ShiftLegs(legs, query_date, duration) ==
    IF legs = <<>> THEN legs
    ELSE LET first == [legs EXCEPT ![1].date = query_date]
         IN  IF Len(legs) > 1 /\ TruthyNum(duration)
             THEN [first EXCEPT ![2].date = PlusDays(query_date, Val(duration))]
             ELSE first

RECURSIVE LegsAfterLoop(_, _, _, _)
\* the shared list after the loop has run for the given day offsets
LegsAfterLoop(legs, start_date, duration, offsets) ==
    IF offsets = <<>> THEN legs
    ELSE LegsAfterLoop(ShiftLegs(legs, PlusDays(start_date, Head(offsets)), duration),
                       start_date, duration, Tail(offsets))

\* the (query_date, body) pairs: every body holds the one shared list
DayBodies(start_date) ==
    [k \in 1..Len(DayOffsets) |-> [day |-> PlusDays(start_date, DayOffsets[k])]]

First(seq, n) == SubSeq(seq, 1, IF Len(seq) < n THEN Len(seq) ELSE n)

\* the whole reply, tagged with the day
fetch_for_day_uncut(day, outcome) ==
    IF ~outcome.ok THEN <<>>
    ELSE [i \in 1..Len(outcome.data) |-> [outcome.data[i] EXCEPT !.search_date = day]]

\* fetch_for_day: the reply cut to five offers, each tagged with the day
fetch_for_day(day, outcome) ==
    IF ~outcome.ok THEN <<>>
    ELSE LET flights == First(outcome.data, 5)
         IN  [i \in 1..Len(flights) |-> [flights[i] EXCEPT !.search_date = day]]

\* the node up to the thread pool
SearchStart ==
    /\ pc = "search_flights"
    /\ search.phase = "none"
    /\ LET t == Traced(st, "search_flights")
           start == t.normalized_departure_date
       IN  IF t.access_token = Absent
           THEN /\ st' = t
                /\ raised' = "search_flights"
                /\ pc' = "raised"
                /\ UNCHANGED search
           ELSE IF ~Truthy(start)
           THEN /\ st' = [t EXCEPT !.needs_followup = TRUE, !.followup_question = QAskDate]
                /\ pc' = "display_results"
                /\ UNCHANGED <<raised, search>>
           ELSE IF ~ParsesAsDate(start)
           THEN /\ st' = [t EXCEPT !.needs_followup = TRUE, !.followup_question = QBadDate]
                /\ pc' = "display_results"
                /\ UNCHANGED <<raised, search>>
           ELSE /\ st' = IF t.body = None THEN t
                         ELSE [t EXCEPT !.body =
                                  Some([Val(t.body) EXCEPT !.originDestinations =
                                      LegsAfterLoop(@, start, t.duration, DayOffsets)])]
                /\ search' = [phase |-> "fetching", bodies |-> DayBodies(start),
                              replies |-> [k \in 1..Len(DayOffsets) |-> None],
                              returned |-> [k \in 1..Len(DayOffsets) |-> <<>>],
                              done |-> <<>>]
                /\ UNCHANGED <<pc, raised>>
    /\ UNCHANGED <<cache, store, sent, hotel, response, lookup, call>>

InSeq(x, seq) == \E i \in 1..Len(seq) : seq[i] = x

\* body.setdefault("searchCriteria", {}).setdefault("maxFlightOffers", 3) on {}
EmptyBody ==
    [ currencyCode |-> "", originDestinations |-> <<>>, travelers |-> <<>>,
      maxFlightOffers |-> 3, cabinRestrictions |-> <<>> ]

\* a day-query returns the provider's offers, or fails (network error,
\* timeout, non-2xx status, malformed body)
DayOutcomes(replies) ==
    {[ok |-> TRUE, data |-> r] : r \in replies} \cup {[ok |-> FALSE, data |-> <<>>]}

\* one worker of the pool: posts the body of day k and returns its flights
FetchDay(replies) ==
    /\ pc = "search_flights"
    /\ search.phase = "fetching"
    /\ \E k \in 1..Len(search.bodies), outcome \in DayOutcomes(replies) :
          /\ ~InSeq(k, search.done)
          /\ sent' = Append(sent, [kind |-> "flight-offers",
                                   day |-> search.bodies[k].day,
                                   bearer |-> st.access_token,
                                   json |-> IF st.body = None THEN EmptyBody
                                            ELSE Val(st.body)])
          /\ search' = [search EXCEPT
                            !.replies[k] = Some(outcome),
                            !.returned[k] = fetch_for_day(search.bodies[k].day, outcome),
                            !.done = Append(@, k)]
    /\ UNCHANGED <<pc, st, cache, store, raised, hotel, response, lookup, call>>

RECURSIVE MergedOncePerItinerary(_, _)
\* the merge with an itinerary that an earlier day has returned at the same
\* price left out
MergedOncePerItinerary(returned, done) ==
    IF done = <<>> THEN <<>>
    ELSE LET first == returned[Head(done)]
             new(offer) == \A i \in 1..Len(first) :
                               \/ first[i].itineraries /= offer.itineraries
                               \/ first[i].price /= offer.price
         IN  first \o SelectSeq(MergedOncePerItinerary(returned, Tail(done)), new)

RECURSIVE Merged(_, _)
\* all_results after the as_completed loop, in completion order
Merged(returned, done) ==
    IF done = <<>> THEN <<>>
    ELSE returned[Head(done)] \o Merged(returned, Tail(done))

\* the merge read before every worker has returned
SearchJoinEarly ==
    /\ pc = "search_flights"
    /\ search.phase = "fetching"
    /\ st' = [st EXCEPT !.result = Some([data |-> Merged(search.returned, search.done)]),
                        !.current_node = "search_flights"]
    /\ search' = [search EXCEPT !.phase = "joined"]
    /\ pc' = "display_results"
    /\ UNCHANGED <<cache, store, raised, sent, hotel, response, lookup, call>>

\* the node after the pool has been joined
SearchJoin ==
    /\ pc = "search_flights"
    /\ search.phase = "fetching"
    /\ Len(search.done) = Len(search.bodies)
    /\ st' = [st EXCEPT !.result = Some([data |-> Merged(search.returned, search.done)]),
                        !.current_node = "search_flights"]
    /\ search' = [search EXCEPT !.phase = "joined"]
    /\ pc' = "display_results"
    /\ UNCHANGED <<cache, store, raised, sent, hotel, response, lookup, call>>

----------------------------------------------------------------------------
(* nodes.display_results_node *)

\* format_time: "HH:MM" of a timestamp, the text itself when it does not
\* parse, "N/A" when it is missing
format_time(at) ==
    IF at = None THEN NotAvailable
    ELSE IF ParsesAsIso(at) THEN <<at[4], at[5]>>
    ELSE at

\* build_leg without the display strings duration and layovers
build_leg(itinerary) ==
    LET segments == itinerary.segments
        first_segment == segments[1]
        last_segment == segments[Len(segments)]
    IN  IF segments = <<>> THEN None
        ELSE Some([ airline |-> first_segment.carrierCode,
                    flight_number |-> first_segment.number,
                    departure_airport |-> first_segment.departure.iataCode,
                    arrival_airport |-> last_segment.arrival.iataCode,
                    departure_time |-> format_time(first_segment.departure.at),
                    arrival_time |-> format_time(last_segment.arrival.at),
                    stops |-> Len(segments) - 1 ])

\* the dict appended to formatted for one flight that has itineraries
FormatOffer(flight) ==
    LET itineraries == flight.itineraries
        outbound_segments == itineraries[1].segments
        return_segments == itineraries[2].segments
    IN  [ price |-> IF flight.price = None THEN NotAvailable ELSE flight.price,
          currency |-> flight.currency,
          search_date |-> flight.search_date,
          outbound |-> build_leg(itineraries[1]),
          return_leg |-> IF Len(itineraries) > 1 THEN build_leg(itineraries[2]) ELSE None,
          outbound_arrival_at |->
              IF outbound_segments /= <<>>
              THEN outbound_segments[Len(outbound_segments)].arrival.at
              ELSE None,
          return_departure_at |->
              IF Len(itineraries) > 1 /\ return_segments /= <<>>
              THEN return_segments[1].departure.at
              ELSE None,
          offer_id |-> None ]

RECURSIVE FormatAll(_)
\* the loop over flights: a flight without itineraries is skipped
FormatAll(flights) ==
    IF flights = <<>> THEN <<>>
    ELSE IF Head(flights).itineraries = <<>> THEN FormatAll(Tail(flights))
    ELSE <<FormatOffer(Head(flights))>> \o FormatAll(Tail(flights))

\* the sort key float(price) of a is smaller than that of b ("N/A": infinity)
PriceBelow(a, b) ==
    /\ a.price /= NotAvailable
    /\ (b.price = NotAvailable \/ Val(a.price) < Val(b.price))

RECURSIVE InsertBeforeEqual(_, _)
\* x goes in front of the first element whose key is not smaller than its own
InsertBeforeEqual(sorted, x) ==
    IF sorted = <<>> THEN <<x>>
    ELSE IF ~PriceBelow(Head(sorted), x) THEN <<x>> \o sorted
    ELSE <<Head(sorted)>> \o InsertBeforeEqual(Tail(sorted), x)

RECURSIVE InsertByPrice(_, _)
\* x goes behind every element whose key is not larger than its own
InsertByPrice(sorted, x) ==
    IF sorted = <<>> THEN <<x>>
    ELSE IF PriceBelow(x, Head(sorted)) THEN <<x>> \o sorted
    ELSE <<Head(sorted)>> \o InsertByPrice(Tail(sorted), x)

RECURSIVE SortedFrom(_, _)
SortedFrom(sorted, rest) ==
    IF rest = <<>> THEN sorted
    ELSE SortedFrom(InsertByPrice(sorted, Head(rest)), Tail(rest))

\* formatted.sort(key=...): list.sort is stable
SortByPrice(offers) == SortedFrom(<<>>, offers)

\* the offers numbered from 0, as enumerate does without start=1
AssignIdsFromZero(offers) ==
    [i \in 1..Len(offers) |-> [offers[i] EXCEPT !.offer_id = Some(i - 1)]]

\* for index, offer in enumerate(formatted, start=1): offer["offer_id"] = index
AssignIds(offers) == [i \in 1..Len(offers) |-> [offers[i] EXCEPT !.offer_id = Some(i)]]

ListOf(offers) == <<"list", offers>>

Flights(s) == IF s.result = None THEN <<>> ELSE Val(s.result).data

\* float(x["price"]) raises inside the sort: a price text that is no number
SortRaises(offers) == \E i \in 1..Len(offers) : offers[i].price = JunkPrice

\* which way the node leaves its try block
DisplayPath(s) ==
    IF Flights(s) = <<>> THEN "no_flights"
    ELSE IF SortRaises(FormatAll(Flights(s))) THEN "except"
    ELSE "formatted"

display_results_node(s) ==
    LET t == Traced(s, "display_results")
    IN  CASE DisplayPath(t) = "no_flights" ->
                [t EXCEPT !.formatted_results = ListOf(<<>>),
                          !.needs_followup = TRUE,
                          !.followup_question = QNoFlights]
          [] DisplayPath(t) = "except" ->
                [t EXCEPT !.formatted_results = ListOf(<<>>),
                          !.followup_question = QFormatting,
                          !.needs_followup = TRUE]
          [] OTHER ->
                [t EXCEPT !.formatted_results =
                              ListOf(AssignIds(SortByPrice(FormatAll(Flights(t))))),
                          !.current_node = "display_results"]

\* the offers kept under one key for all threads
DisplayResultsOneKey ==
    /\ pc = "display_results"
    /\ st' = display_results_node(st)
    /\ cache' = IF DisplayPath(st) = "formatted"
                THEN [t \in Threads |-> st'.formatted_results]
                ELSE cache
    /\ pc' = "summarize"
    /\ UNCHANGED <<store, raised, sent, search, hotel, response, lookup, call>>

DisplayResults ==
    /\ pc = "display_results"
    /\ st' = display_results_node(st)
    /\ cache' = IF DisplayPath(st) = "formatted"
                THEN [cache EXCEPT ![st.thread_id] = st'.formatted_results]
                ELSE cache
    /\ pc' = "summarize"
    /\ UNCHANGED <<store, raised, sent, search, hotel, response, lookup, call>>

----------------------------------------------------------------------------
(* nodes.summarize_node *)

SummaryOutcomes == {"ok", "error"}

summarize_node(s, outcome) ==
    LET t == Traced(s, "summarize")
        summary ==
            IF ~HasOffers(t.formatted_results)
            THEN "Here are your flight options:"
            ELSE IF outcome = "ok" THEN "llm summary"
            ELSE "Great! I found your flight options. Here are the details:"
    IN  [t EXCEPT !.summary = Some(summary), !.current_node = "summarize"]

Summarize ==
    /\ pc = "summarize"
    /\ \E outcome \in SummaryOutcomes : st' = summarize_node(st, outcome)
    /\ pc' = "END"
    /\ UNCHANGED <<cache, store, raised, sent, search, hotel, response, lookup, call>>

----------------------------------------------------------------------------
(* nodes.selection_nodes *)

\* formatted_results is the raw provider response (a dict with "data")
IsAmadeus(results) == results /= None /\ results[1] = "amadeus"

OffersOnState(results) ==
    IF results = None THEN <<>>
    ELSE IF results[1] = "amadeus" THEN results[2].data
    ELSE results[2]

\* the offers to choose from and the shape they are in
SelectionOffers(s, offers_by_thread) ==
    IF OffersOnState(s.formatted_results) /= <<>>
    THEN [offers |-> OffersOnState(s.formatted_results),
          is_amadeus_format |-> IsAmadeus(s.formatted_results)]
    ELSE [offers |-> OffersOnState(offers_by_thread[s.thread_id]),
          is_amadeus_format |-> FALSE]

\* one line of the selection prompt
PreviewLine(offer, i, is_amadeus_format) ==
    IF is_amadeus_format
    THEN [ offer_id |-> IF offer.id = None THEN Some(i) ELSE offer.id,
           route |-> IF offer.itineraries /= <<>> /\ offer.itineraries[1].segments /= <<>>
                     THEN Some(<<offer.itineraries[1].segments[1].departure.iataCode,
                                 offer.itineraries[1].segments[1].arrival.iataCode>>)
                     ELSE NotAvailable,
           currency |-> offer.currency,
           price |-> IF offer.price = None THEN NotAvailable ELSE offer.price ]
    ELSE [ offer_id |-> IF offer.offer_id = None THEN Some(i) ELSE offer.offer_id,
           route |-> IF offer.outbound /= None
                     THEN Some(<<Val(offer.outbound).departure_airport,
                                 Val(offer.outbound).arrival_airport>>)
                     ELSE NotAvailable,
           currency |-> offer.currency,
           price |-> offer.price ]

\* the prompt cut to its first three lines
SelectionPromptTopThree(offers, is_amadeus_format) ==
    Some([ text |-> "Please enter the flight offer ID you prefer (e.g., 1 or 2).",
           lines |-> [i \in 1..Len(First(offers, 3)) |->
                         PreviewLine(offers[i], i, is_amadeus_format)] ])

SelectionPrompt(offers, is_amadeus_format) ==
    Some([ text |-> "Please enter the flight offer ID you prefer (e.g., 1 or 2).",
           lines |-> [i \in 1..Len(offers) |->
                         PreviewLine(offers[i], i, is_amadeus_format)] ])

\* the key the loop compares with the chosen number
OfferKey(offer, is_amadeus_format) ==
    IF is_amadeus_format THEN offer.id ELSE offer.offer_id

\* the offer at the chosen position, whatever id it carries
FindOfferByPosition(offers, selected_id, is_amadeus_format) ==
    Some(offers[selected_id])

RECURSIVE FindOffer(_, _, _)
\* the first offer whose id reads as the chosen number, or None
FindOffer(offers, selected_id, is_amadeus_format) ==
    IF offers = <<>> THEN None
    ELSE IF OfferKey(Head(offers), is_amadeus_format) = Some(selected_id)
         THEN Some(Head(offers))
    ELSE FindOffer(Tail(offers), selected_id, is_amadeus_format)

\* dictionaries.locations[airport].cityCode of the raw response, or None
CityOf(results, airport) ==
    LET hits == {e \in results[2].locations : e.airport = airport}
    IN  IF hits = {} THEN None ELSE (CHOOSE e \in hits : TRUE).cityCode

\* the timestamp read as a date text, None when missing or not ISO
DateOfIso(at) == IF at /= None /\ ParsesAsIso(at) THEN IsoDate(at) ELSE None

\* the city read from the departure airport of the outbound leg
FromOfferDepartureCity(s, offer, is_amadeus_format) ==
    [ city_code |-> IF is_amadeus_format
                    THEN Some(offer.itineraries[1].segments[1].departure.iataCode)
                    ELSE Some(Val(offer.outbound).departure_airport),
      checkin |-> DateOfIso(IF is_amadeus_format
                            THEN offer.itineraries[1].segments[1].arrival.at
                            ELSE offer.outbound_arrival_at),
      checkout |-> IF is_amadeus_format THEN None
                   ELSE DateOfIso(offer.return_departure_at) ]

\* city_code, checkin_date and checkout_date as read from the chosen offer
FromOffer(s, offer, is_amadeus_format) ==
    IF is_amadeus_format
    THEN LET its == offer.itineraries
             has_outbound == its /= <<>> /\ its[1].segments /= <<>>
             arrival == its[1].segments[1].arrival
             has_return == Len(its) > 1 /\ its[2].segments /= <<>>
         IN  [ city_code |->
                   IF has_outbound
                   THEN (IF CityOf(s.formatted_results, arrival.iataCode) /= None
                         THEN CityOf(s.formatted_results, arrival.iataCode)
                         ELSE Some(arrival.iataCode))
                   ELSE None,
               checkin |-> IF has_outbound THEN DateOfIso(arrival.at) ELSE None,
               checkout |-> IF has_return
                            THEN DateOfIso(its[2].segments[1].departure.at)
                            ELSE None ]
    ELSE [ city_code |-> IF offer.outbound /= None
                         THEN Some(Val(offer.outbound).arrival_airport)
                         ELSE None,
           checkin |-> DateOfIso(offer.outbound_arrival_at),
           checkout |-> DateOfIso(offer.return_departure_at) ]

\* the hotel state without the departure_date + duration step
HotelStateNextDay(s, selected_id, offer, is_amadeus_format) ==
    LET derived == FromOffer(s, offer, is_amadeus_format)
        checkin_date ==
            IF derived.checkin /= None THEN derived.checkin ELSE s.departure_date
        checkout_date ==
            IF derived.checkout /= None THEN derived.checkout
            ELSE IF checkin_date = None THEN None
            ELSE PlusDays(checkin_date, 1)
    IN  [ NoHotel EXCEPT
            !.returned = TRUE,
            !.selected_flight = Some(selected_id),
            !.city_code = derived.city_code,
            !.checkin_date = checkin_date,
            !.checkout_date = checkout_date,
            !.currency = Some("EGP"),
            !.roomQuantty = Some(1),
            !.adult = Some(1) ]

\* the hotel state built for a chosen offer
HotelState(s, selected_id, offer, is_amadeus_format) ==
    LET derived == FromOffer(s, offer, is_amadeus_format)
        by_duration ==
            IF /\ derived.checkout = None
               /\ Truthy(s.departure_date) /\ TruthyNum(s.duration)
               /\ ParsesAsDate(s.departure_date)
            THEN PlusDays(s.departure_date, Val(s.duration))
            ELSE derived.checkout
        checkin_date ==
            IF derived.checkin /= None THEN derived.checkin ELSE s.departure_date
        checkout_date ==
            IF by_duration /= None THEN by_duration
            ELSE IF checkin_date = None THEN None
            ELSE IF ParsesAsDate(checkin_date) THEN PlusDays(checkin_date, 1)
            ELSE checkin_date
    IN  [ NoHotel EXCEPT
            !.returned = TRUE,
            !.selected_flight = Some(selected_id),
            !.city_code = derived.city_code,
            !.checkin_date = checkin_date,
            !.checkout_date = checkout_date,
            !.currency = Some("EGP"),
            !.roomQuantty = Some(1),
            !.adult = Some(1) ]

\* the dict the node returns: the workflow keys and the hotel keys
selection_nodes(s, offers_by_thread) ==
    LET chosen == SelectionOffers(s, offers_by_thread)
        offers == chosen.offers
        selected_id == FirstInt(s.current_message)
        found == FindOffer(offers, Val(selected_id), chosen.is_amadeus_format)
        asks(question) ==
            [ needs_followup |-> TRUE, followup_question |-> question,
              hotel |-> [NoHotel EXCEPT !.returned = TRUE] ]
    IN  IF offers = <<>> THEN asks(QNoOffers)
        ELSE IF ~TruthyNum(selected_id) \/ Val(selected_id) < 1
                  \/ Val(selected_id) > Len(offers)
        THEN asks(SelectionPrompt(offers, chosen.is_amadeus_format))
        ELSE IF found = None THEN asks(QBadId)
        ELSE [ needs_followup |-> FALSE, followup_question |-> s.followup_question,
               hotel |-> HotelState(s, Val(selected_id), Val(found),
                                    chosen.is_amadeus_format) ]

\* graph.check_selection_complete
check_selection_complete(h) ==
    IF Truthy(h.city_code) /\ Truthy(h.checkin_date) /\ Truthy(h.checkout_date)
    THEN "continue_hotel_search"
    ELSE "ask_followup"

Selection ==
    /\ pc = "selection"
    /\ LET ret == selection_nodes(Traced(st, "selection"), cache)
       IN  /\ st' = [Traced(st, "selection") EXCEPT
                        !.needs_followup = ret.needs_followup,
                        !.followup_question = ret.followup_question,
                        !.current_node = "selection"]
           /\ hotel' = ret.hotel
           /\ pc' = IF check_selection_complete(ret.hotel) = "continue_hotel_search"
                    THEN "get_city_IDs" ELSE "END"
    /\ UNCHANGED <<cache, store, raised, sent, search, response, lookup, call>>

----------------------------------------------------------------------------
(* The hotel steps *)

QHotelsCity ==
    Text("Sorry, I had trouble finding hotels in your city. Please try again later.")
QNoHotelIds == Text("No hotel IDs found to fetch offers.")
QHotelOffers ==
    Text("Sorry, I had trouble retrieving hotel offers. Please try again later.")

\* state.get('access_token', '')
Bearer(s) == IF s.access_token = Absent THEN Some("") ELSE s.access_token

\* the hotelId values a by-city reply may list
HotelIdReplies == {<<>>, <<1, 2>>, [i \in 1..21 |-> i]}
CityOutcomes == {[ok |-> TRUE, data |-> r] : r \in HotelIdReplies}
                    \cup {[ok |-> FALSE, data |-> <<>>]}

\* nodes.get_city_IDs_node
GetCityIDs ==
    /\ pc = "get_city_IDs"
    /\ sent' = Append(sent, [kind |-> "hotels-by-city", bearer |-> Bearer(st),
                             cityCode |-> hotel.city_code])
    /\ \E outcome \in CityOutcomes :
          IF outcome.ok
          THEN /\ hotel' = [hotel EXCEPT !.hotel_id = Some(First(outcome.data, 20))]
               /\ UNCHANGED st
          ELSE /\ hotel' = [hotel EXCEPT !.hotel_id = Some(<<>>)]
               /\ st' = [st EXCEPT !.followup_question = QHotelsCity]
    /\ pc' = "get_hotel_offers"
    /\ UNCHANGED <<cache, store, raised, search, response, lookup, call>>

HotelOfferOutcomes == {"offers", "empty", "failed"}

\* nodes.get_hotel_offers_node: the request reads the keys check_in_date and
\* check_out_date, which no step sets, and so falls back to today and tomorrow
GetHotelOffers ==
    /\ pc = "get_hotel_offers"
    /\ IF hotel.hotel_id = None \/ Val(hotel.hotel_id) = <<>>
       THEN /\ st' = [st EXCEPT !.followup_question = QNoHotelIds]
            /\ UNCHANGED <<hotel, sent>>
       ELSE /\ sent' = Append(sent, [kind |-> "hotel-offers", bearer |-> Bearer(st),
                                     hotelIds |-> Val(hotel.hotel_id),
                                     checkInDate |-> Today,
                                     checkOutDate |-> PlusDays(Today, 1)])
            /\ \E outcome \in HotelOfferOutcomes :
                  IF outcome = "failed"
                  THEN /\ hotel' = [hotel EXCEPT !.hotels_offers = Some(<<>>)]
                       /\ st' = [st EXCEPT !.followup_question = QHotelOffers]
                  ELSE /\ hotel' = [hotel EXCEPT !.hotels_offers =
                                        Some(IF outcome = "empty" THEN <<>>
                                             ELSE <<"hotel offer">>)]
                       /\ UNCHANGED st
    /\ pc' = "display_hotels"
    /\ UNCHANGED <<cache, store, raised, search, response, lookup, call>>

\* nodes.display_hotels_nodes: the body is "..."
DisplayHotels ==
    /\ pc = "display_hotels"
    /\ pc' = "summarize_hotels"
    /\ UNCHANGED <<st, cache, store, raised, sent, search, hotel, response, lookup, call>>

\* nodes.summarize_hotels_node: the body is "..."
SummarizeHotels ==
    /\ pc = "summarize_hotels"
    /\ pc' = "END"
    /\ UNCHANGED <<st, cache, store, raised, sent, search, hotel, response, lookup, call>>

----------------------------------------------------------------------------
(* main.chat_endpoint after graph.invoke *)

Answer(s, exception) ==
    IF exception /= "none" THEN [kind |-> "http500", thread |-> s.thread_id]
    ELSE IF s.needs_followup
    THEN [kind |-> "question", thread |-> s.thread_id, question |-> s.followup_question]
    ELSE [kind |-> "results", thread |-> s.thread_id,
          flights |-> OffersOnState(s.formatted_results),
          summary |-> IF s.summary = None THEN Some("Here are your flight options:")
                      ELSE s.summary]

\* FlightResult(...) built from one formatted offer: price, currency,
\* search_date and the two legs; the offer_id is not taken over
FlightResult(f) ==
    [ price |-> f.price, currency |-> f.currency, search_date |-> f.search_date,
      outbound |-> Val(f.outbound), return_leg |-> f.return_leg ]

\* the list chat_endpoint builds: empty when building one entry raises
\* (an offer whose outbound is None)
FlightResults(flights) ==
    IF \E i \in 1..Len(flights) : flights[i].outbound = None THEN <<>>
    ELSE [i \in 1..Len(flights) |-> FlightResult(flights[i])]

\* the rows of the table: for i, flight in enumerate(flights, start=1)
format_flights_html(flights) ==
    [i \in 1..Len(flights) |-> [number |-> i, flight |-> flights[i]]]

\* conversation_store.add_message(thread_id, "assistant", assistant_message):
\* no message is added when the turn ends with HTTP 500. kept: how many
\* assistant messages at the end of a history the specification follows
Added(conversation, s, exception, kept) ==
    LET answer == Answer(s, exception)
        asks == answer.kind = "question" /\ ~s.info_complete
        next == IF conversation.asked < kept THEN conversation.asked + 1 ELSE kept
    IN  IF kept = 0 \/ answer.kind = "http500" THEN conversation
        ELSE [ asked |-> IF asks THEN next ELSE 0,
               last |-> IF answer.kind = "results" THEN "results"
                        ELSE IF answer.question = QNoFlights THEN "no_flights"
                        ELSE "question" ]

Respond(kept) ==
    /\ pc \in {"END", "raised"}
    /\ response' = Answer(st, raised)
    /\ store' = [store EXCEPT ![st.thread_id] = Added(@, st, raised, kept)]
    /\ pc' = "idle"
    /\ st' = InitialState("t1", <<Word>>)
    /\ raised' = "none"
    /\ sent' = <<>>
    /\ search' = NoSearch
    /\ hotel' = NoHotel
    /\ lookup' = NoLookup
    /\ UNCHANGED <<cache, call>>

\* main.reset_conversation: conversation_store.clear_conversation(thread_id)
Reset(threads) ==
    /\ pc = "idle"
    /\ \E thread \in threads :
           store' = [store EXCEPT ![thread] = NoConversation]
    /\ UNCHANGED <<pc, st, cache, raised, sent, search, hotel, response, lookup, call>>

----------------------------------------------------------------------------
(* The workflow, turn after turn *)

Next ==
    \/ StartTurn({"t1"}, Messages)
    \/ LLMConversation(LLMReplies)
    \/ AnalyzeConversation
    \/ NormalizeInfo
    \/ FormatBody
    \/ GetAuth
    \/ SearchStart
    \/ FetchDay(TurnReplies)
    \/ SearchJoin
    \/ DisplayResults
    \/ Summarize
    \/ Selection
    \/ GetCityIDs
    \/ GetHotelOffers
    \/ DisplayHotels
    \/ SummarizeHotels
    \/ Respond(0)

Spec == Init /\ [][Next]_vars

----------------------------------------------------------------------------
(* The request builder and the day window on their own: the search steps   *)
(* applied to every trip of a bounded set                                  *)

TripDates == {<<2025, 8, 13>>, <<2025, 12, 30>>, <<2026, 2, 27>>, <<2028, 2, 25>>}
TripDurations == {None} \cup {Some(d) : d \in 0..MaxDuration}

\* the state normalize_info leaves for a trip
TripState(date, duration, cabin) ==
    normalize_info_node(
        [InitialState("t1", <<Word>>) EXCEPT
            !.departure_date = date, !.origin = Some("New York"),
            !.destination = Some("Paris"), !.cabin_class = cabin,
            !.duration = duration, !.info_complete = TRUE, !.needs_followup = FALSE],
        None, None)

InitBody ==
    /\ pc = "format_body"
    /\ \E date \in TripDates, duration \in TripDurations,
          cabin \in {None, Some("business")} :
           st = TripState(date, duration, cabin)
    /\ cache = [t \in Threads |-> None]
    /\ raised = "none"
    /\ sent = <<>>
    /\ search = NoSearch
    /\ hotel = NoHotel
    /\ response = NoResponse
    /\ store = NoConversations
    /\ lookup = NoLookup
    /\ call = NoCall

NextBody ==
    \/ FormatBody
    \/ GetAuth
    \/ SearchStart
    \/ FetchDay({<<>>})
    \/ SearchJoin

SpecBody == InitBody /\ [][NextBody]_vars

----------------------------------------------------------------------------
(* validators.validate_date on its own: a date text with or without a year *)
(* on several days of the calendar                                          *)

Invalid(error) == [valid |-> FALSE, error |-> error]

\* date_str is <<y, m, d>> for a text "%Y-%m-%d" and <<m, d>> for a text
\* "%b %d", which strptime reads as a date of the year 1900. A replace(year=)
\* that gives no calendar date raises ValueError inside the loop, and no
\* other format matches the text
validate_date(today, date_str) ==
    LET with_year == IF Len(date_str) = 3 THEN date_str ELSE <<1900>> \o date_str
        current_year == today[1]
        this_year == IF with_year[1] = 1900
                     THEN <<current_year, with_year[2], with_year[3]>>
                     ELSE with_year
        passed == /\ Strptime(this_year) < Strptime(today)
                  /\ \/ this_year[2] < today[2]
                     \/ this_year[2] = today[2] /\ this_year[3] < today[3]
        parsed_date == IF passed
                       THEN <<current_year + 1, this_year[2], this_year[3]>>
                       ELSE this_year
    IN  IF ~ParsesAsDate(with_year) \/ ~ParsesAsDate(parsed_date)
        THEN Invalid("Could not parse date")
        ELSE IF Strptime(parsed_date) > Strptime(today) + 730
        THEN Invalid("Date is too far in the future (max 2 years)")
        ELSE [valid |-> TRUE, formatted_date |-> parsed_date]

\* the days datetime.now() may fall on
Todays == {<<2025, 3, 10>>, <<2025, 8, 10>>, <<2027, 12, 31>>, <<2028, 1, 10>>}

\* day and month texts of every month, and dated texts around those days
DateTexts ==
    {<<m, d>> : m \in 1..12, d \in {1, 5, 10, 20, 29, 31}}
        \cup {<<y, md[1], md[2]>> :
                 y \in 2024..2031,
                 md \in {<<1, 5>>, <<2, 29>>, <<3, 10>>, <<8, 9>>, <<8, 10>>,
                         <<8, 20>>, <<12, 31>>}}

InitDate ==
    /\ pc = "validate_date"
    /\ st = InitialState("t1", <<Word>>)
    /\ cache = [t \in Threads |-> None]
    /\ raised = "none"
    /\ sent = <<>>
    /\ search = NoSearch
    /\ hotel = NoHotel
    /\ response = NoResponse
    /\ store = NoConversations
    /\ lookup = NoLookup
    /\ \E today \in Todays, date_str \in DateTexts :
           call = [op |-> "validate_date", today |-> today,
                   date_str |-> date_str, result |-> None]

ValidateDate ==
    /\ pc = "validate_date"
    /\ call' = [call EXCEPT !.result = validate_date(call.today, call.date_str)]
    /\ pc' = "validated"
    /\ UNCHANGED <<st, cache, raised, sent, search, hotel, response, store, lookup>>

NextDate == ValidateDate

SpecDate == InitDate /\ [][NextDate]_vars

----------------------------------------------------------------------------
(* models.ConversationStore on its own: any sequence of its three methods  *)
(* on two threads. A message is its role and content (the timestamp is     *)
(* left out); store[t] tells whether t is a key of _conversations, and the *)
(* list kept under it                                                      *)

MaxMessages == 2

SystemMessage == [role |-> "system", content |-> "You are a helpful AI travel assistant"]

NoKey == [present |-> FALSE, messages |-> <<>>]

\* self._conversations.get(thread_id, [])
get_conversation(conversations, thread_id) ==
    IF conversations[thread_id].present THEN conversations[thread_id].messages
    ELSE <<>>

\* the message put in front of the list
add_message_in_front(conversations, thread_id, role, content) ==
    [conversations EXCEPT ![thread_id] =
        [present |-> TRUE,
         messages |-> <<[role |-> role, content |-> content]>>
                          \o (IF @.present THEN @.messages ELSE <<SystemMessage>>)]]

add_message(conversations, thread_id, role, content) ==
    [conversations EXCEPT ![thread_id] =
        [present |-> TRUE,
         messages |-> (IF @.present THEN @.messages ELSE <<SystemMessage>>)
                          \o <<[role |-> role, content |-> content]>>]]

clear_conversation(conversations, thread_id) ==
    [conversations EXCEPT ![thread_id] = NoKey]

InitStore ==
    /\ pc = "conversation_store"
    /\ st = InitialState("t1", <<Word>>)
    /\ cache = [t \in Threads |-> None]
    /\ raised = "none"
    /\ sent = <<>>
    /\ search = NoSearch
    /\ hotel = NoHotel
    /\ response = NoResponse
    /\ store = [t \in Threads |-> NoKey]
    /\ lookup = NoLookup
    /\ call = NoCall

AddMessage ==
    /\ pc = "conversation_store"
    /\ \E thread_id \in Threads, role \in {"user", "assistant"}, content \in {"a", "b"} :
          /\ Len(get_conversation(store, thread_id)) <= MaxMessages
          /\ store' = add_message(store, thread_id, role, content)
          /\ call' = [op |-> "add_message", thread_id |-> thread_id,
                      message |-> [role |-> role, content |-> content]]
    /\ UNCHANGED <<pc, st, cache, raised, sent, search, hotel, response, lookup>>

ClearConversation ==
    /\ pc = "conversation_store"
    /\ \E thread_id \in Threads :
          /\ store' = clear_conversation(store, thread_id)
          /\ call' = [op |-> "clear_conversation", thread_id |-> thread_id]
    /\ UNCHANGED <<pc, st, cache, raised, sent, search, hotel, response, lookup>>

GetConversation ==
    /\ pc = "conversation_store"
    /\ \E thread_id \in Threads :
          call' = [op |-> "get_conversation", thread_id |-> thread_id,
                   result |-> get_conversation(store, thread_id)]
    /\ UNCHANGED <<pc, st, cache, raised, sent, search, hotel, response, store, lookup>>

NextStore ==
    \/ AddMessage
    \/ ClearConversation
    \/ GetConversation

SpecStore == InitStore /\ [][NextStore]_vars

----------------------------------------------------------------------------
(* The normalisation on its own: every kind of location text against every *)
(* answer of the language model                                            *)

\* a code in either case, two names of airport_mappings, a name outside it
Locations == {"cdg", "JFK", "New York", "Paris", "Atlanta"}

InitNormalize ==
    /\ pc = "normalize_info"
    /\ \E origin \in Locations, destination \in Locations :
           st = [InitialState("t1", <<Word>>) EXCEPT
                    !.departure_date = <<2025, 8, 13>>, !.origin = Some(origin),
                    !.destination = Some(destination),
                    !.cabin_class = Some("business"), !.duration = Some(7),
                    !.info_complete = TRUE, !.needs_followup = FALSE]
    /\ cache = [t \in Threads |-> None]
    /\ raised = "none"
    /\ sent = <<>>
    /\ search = NoSearch
    /\ hotel = NoHotel
    /\ response = NoResponse
    /\ store = NoConversations
    /\ lookup = NoLookup
    /\ call = NoCall

NextNormalize ==
    \/ NormalizeInfo
    \/ FormatBody

SpecNormalize == InitNormalize /\ [][NextNormalize]_vars

----------------------------------------------------------------------------
(* The fan-out, the merge and the ranking on their own: one search of one  *)
(* trip against every combination of provider replies                      *)

InitSearch ==
    /\ pc = "get_auth"
    /\ \E duration \in {Some(1), Some(7)} :
           st = format_body_node(TripState(<<2025, 8, 13>>, duration, Some("economy")))
    /\ cache = [t \in Threads |-> None]
    /\ raised = "none"
    /\ sent = <<>>
    /\ search = NoSearch
    /\ hotel = NoHotel
    /\ response = NoResponse
    /\ store = NoConversations
    /\ lookup = NoLookup
    /\ call = NoCall

NextSearch ==
    \/ GetAuth
    \/ SearchStart
    \/ FetchDay(SearchReplies)
    \/ SearchJoin
    \/ DisplayResults
    \/ Summarize

SpecSearch == InitSearch /\ [][NextSearch]_vars

----------------------------------------------------------------------------
(* The selection step on its own: selection_nodes applied to every state   *)
(* of a bounded set, as a caller or a test hands it over                   *)

RECURSIVE Numbered(_, _)
\* a provider reply whose offers carry the ids given
Numbered(flights, ids) ==
    IF flights = <<>> THEN <<>>
    ELSE <<[Head(flights) EXCEPT !.id = Some(Head(ids))]>>
             \o Numbered(Tail(flights), Tail(ids))

\* what display_results makes of the flights of one day
Displayed(flights, day) ==
    ListOf(AssignIds(SortByPrice(FormatAll(
        fetch_for_day(day, [ok |-> TRUE, data |-> flights])))))

Amadeus(flights, ids, locations) ==
    <<"amadeus", [data |-> Numbered(flights, ids), locations |-> locations]>>

ExampleSet == <<Direct, Direct, ViaKef, ViaKef, Dear>>

SelectionResults ==
    { None,
      ListOf(<<>>),
      Displayed(ExampleSet, <<2025, 8, 13>>),
      Displayed(<<OneWay, Unpriced, Direct>>, <<2025, 8, 13>>),
      Amadeus(ExampleSet, <<1, 2, 3, 4, 5>>, {}),
      Amadeus(<<ViaKef, OneWay>>, <<7, 2>>,
              {[airport |-> "KEF", cityCode |-> Some("REK")]}) }

SelectionCaches ==
    {None, Displayed(<<ViaKef, Direct>>, <<2025, 8, 14>>)}

InitSelect ==
    /\ pc = "selection"
    /\ \E results \in SelectionResults, msg \in Messages,
          date \in {None, <<2025, 8, 13>>}, duration \in {None, Some(7)} :
           st = [InitialState("t1", msg) EXCEPT
                    !.formatted_results = results,
                    !.departure_date = date, !.duration = duration]
    /\ \E entry \in SelectionCaches : cache = [t \in Threads |-> IF t = "t1" THEN entry ELSE None]
    /\ raised = "none"
    /\ sent = <<>>
    /\ search = NoSearch
    /\ hotel = NoHotel
    /\ response = NoResponse
    /\ store = NoConversations
    /\ lookup = NoLookup
    /\ call = NoCall

NextSelect == Selection

SpecSelect == InitSelect /\ [][NextSelect]_vars

----------------------------------------------------------------------------
(* One thread over many turns: searches, numeric replies and resets, with  *)
(* the last assistant message of the conversation followed                 *)

\* what the language model may extract from a message
ThreadLLMReplies ==
    { [ departure_date |-> <<2025, 8, 13>>, origin |-> Some("New York"),
        destination |-> Some("Paris"), cabin_class |-> Some("business"),
        duration |-> Some(7), followup_question |-> None,
        needs_followup |-> FALSE, info_complete |-> TRUE ],
      [ departure_date |-> None, origin |-> None,
        destination |-> Some("Paris"), cabin_class |-> None,
        duration |-> None,
        followup_question |-> Some([text |-> "llm question", lines |-> <<>>]),
        needs_followup |-> TRUE, info_complete |-> FALSE ] }

NextThread ==
    \/ StartTurn({"t1"}, {<<Word>>, <<Num(1)>>, <<Num(4)>>})
    \/ LLMConversation(ThreadLLMReplies)
    \/ AnalyzeConversation
    \/ NormalizeInfo
    \/ FormatBody
    \/ GetAuth
    \/ SearchStart
    \/ FetchDay({<<>>, <<Direct>>, <<BadPrice>>})
    \/ SearchJoin
    \/ DisplayResults
    \/ Summarize
    \/ Selection
    \/ GetCityIDs
    \/ GetHotelOffers
    \/ DisplayHotels
    \/ SummarizeHotels
    \/ Respond(1)
    \/ Reset({"t1"})

SpecThread == Init /\ [][NextThread]_vars

----------------------------------------------------------------------------
(* A user who never completes the trip information: the follow-up          *)
(* questions in a row are counted up to four                               *)

NextFollowup ==
    \/ StartTurn({"t1"}, {<<Word>>, <<Glued, Word>>})
    \/ LLMConversation(ThreadLLMReplies)
    \/ AnalyzeConversation
    \/ NormalizeInfo
    \/ FormatBody
    \/ GetAuth
    \/ SearchStart
    \/ FetchDay({<<>>})
    \/ SearchJoin
    \/ DisplayResults
    \/ Summarize
    \/ Respond(4)

SpecFollowup == Init /\ [][NextFollowup]_vars

----------------------------------------------------------------------------
(* Two threads taking turns on the one server: chat_endpoint serves one    *)
(* request after the other, each with the thread_id it names               *)

NextThreads ==
    \/ StartTurn(Threads, {<<Word>>, <<Num(1)>>})
    \/ LLMConversation(ThreadLLMReplies)
    \/ AnalyzeConversation
    \/ NormalizeInfo
    \/ FormatBody
    \/ GetAuth
    \/ SearchStart
    \/ FetchDay({<<Direct>>})
    \/ SearchJoin
    \/ DisplayResults
    \/ Summarize
    \/ Selection
    \/ GetCityIDs
    \/ GetHotelOffers
    \/ DisplayHotels
    \/ SummarizeHotels
    \/ Respond(0)

SpecThreads == Init /\ [][NextThreads]_vars

----------------------------------------------------------------------------
(* Turn after turn of one thread, with every turn that has begun carried   *)
(* on: graph.invoke runs the steps one after the other without waiting,    *)
(* and every provider request carries a timeout                            *)

NextLive ==
    \/ StartTurn({"t1"}, {<<Word>>, <<Num(1)>>})
    \/ LLMConversation(ThreadLLMReplies)
    \/ AnalyzeConversation
    \/ NormalizeInfo
    \/ FormatBody
    \/ GetAuth
    \/ SearchStart
    \/ FetchDay({<<Direct>>})
    \/ SearchJoin
    \/ DisplayResults
    \/ Summarize
    \/ Selection
    \/ GetCityIDs
    \/ GetHotelOffers
    \/ DisplayHotels
    \/ SummarizeHotels
    \/ Respond(0)

\* graph.invoke: a step that has been called returns or raises, and the
\* step its edge names is called next
Invoke ==
    /\ pc /= "idle"
    /\ \E step \in {"analyze_conversation", "normalize_info", "format_body", "get_auth",
                    "search_flights", "display_results", "summarize", "selection",
                    "get_city_IDs", "get_hotel_offers", "display_hotels",
                    "summarize_hotels", "END", "raised", "idle"} :
            pc' = step /\ step /= pc

SpecLive == Init /\ [][NextLive]_vars /\ WF_pc(Invoke)

----------------------------------------------------------------------------
(* The search path of one turn entered with a state that already holds     *)
(* trip fields, as graph.invoke accepts it from any caller                 *)

InitFields ==
    /\ pc = "llm_conversation"
    /\ \E date \in {<<2025, 8, 9>>, <<2025, 12, 30>>},
          origin \in {None, Some("Atlanta")}, destination \in {None, Some("cdg")},
          cabin \in {None, Some("eco")}, duration \in {None, Some(3)} :
           st = [InitialState("t1", <<Word>>) EXCEPT
                    !.departure_date = date, !.origin = origin,
                    !.destination = destination, !.cabin_class = cabin,
                    !.duration = duration]
    /\ cache = [t \in Threads |-> None]
    /\ raised = "none"
    /\ sent = <<>>
    /\ search = NoSearch
    /\ hotel = NoHotel
    /\ response = NoResponse
    /\ store = NoConversations
    /\ lookup = NoLookup
    /\ call = NoCall

NextFields ==
    \/ LLMConversation(ThreadLLMReplies)
    \/ AnalyzeConversation
    \/ NormalizeInfo
    \/ FormatBody
    \/ GetAuth
    \/ SearchStart
    \/ FetchDay({<<>>})
    \/ SearchJoin
    \/ DisplayResults
    \/ Summarize

SpecFields == InitFields /\ [][NextFields]_vars

----------------------------------------------------------------------------
(* The hand-over to the hotel steps on its own: a numeric reply against a  *)
(* displayed list whose offers do not all carry an outbound or return leg  *)

\* itineraries[0] without segments: build_leg gives None for the leg
NoSegments == RawOffer(Some(500), <<[segments |-> <<>>]>>)
ReturnOnly == RawOffer(Some(600), <<[segments |-> <<>>], [segments |-> BackDirect]>>)

\* a one-day trip: the outbound leg lands on the 14th, the day the return
\* leg leaves
BackSameDay == <<Segment("CDG", <<2025, 8, 14, 21, 0>>, "JFK", <<2025, 8, 14, 23, 30>>, "6X", 1301)>>
ShortStay == RawOffer(Some(700), <<[segments |-> OutViaKef], [segments |-> BackSameDay]>>)

HotelSet == <<Direct, NoSegments, OneWay, ReturnOnly, ShortStay>>

InitHotel ==
    /\ pc = "selection"
    /\ \E results \in {None, Amadeus(HotelSet, <<1, 2, 3, 4, 5>>, {})},
          msg \in {<<Word>>} \cup {<<Num(k)>> : k \in 1..5},
          date \in {None, <<2025, 8, 13>>}, duration \in {None, Some(0), Some(7)} :
           st = [InitialState("t1", msg) EXCEPT
                    !.formatted_results = results,
                    !.departure_date = date, !.duration = duration]
    /\ \E entry \in {None, Displayed(HotelSet, <<2025, 8, 13>>)} :
           cache = [t \in Threads |-> IF t = "t1" THEN entry ELSE None]
    /\ raised = "none"
    /\ sent = <<>>
    /\ search = NoSearch
    /\ hotel = NoHotel
    /\ response = NoResponse
    /\ store = NoConversations
    /\ lookup = NoLookup
    /\ call = NoCall

NextHotel ==
    \/ Selection
    \/ GetCityIDs
    \/ GetHotelOffers
    \/ DisplayHotels
    \/ SummarizeHotels
    \/ Respond(0)

SpecHotel == InitHotel /\ [][NextHotel]_vars

----------------------------------------------------------------------------
(* Properties *)

TurnOver == pc \in {"END", "raised"}

Ran(node) == InSeq(node, st.node_trace)

\* the steps of the turn behind llm_conversation and analyze_conversation
StepsAfterAnalyze == SubSeq(st.node_trace, 3, Len(st.node_trace))

SearchSteps ==
    << "normalize_info", "format_body", "get_auth", "search_flights",
       "display_results", "summarize" >>

FiveFieldsValid(s) ==
    /\ s.departure_date /= None
    /\ s.origin /= None
    /\ s.destination /= None
    /\ s.cabin_class /= None
    /\ s.duration /= None
    /\ ParsesAsDate(s.departure_date)
    /\ Strptime(s.departure_date) >= Strptime(Today)

\* C1: the validation step sets info_complete exactly when the five trip
\* fields it was given are non-empty and the departure date parses and is
\* not before today; it sets needs_followup to the negation, and leaves a
\* follow-up question exactly when the information is incomplete.
C1_InfoCompleteIffValid ==
    [][pc = "analyze_conversation" =>
          /\ st'.info_complete <=> FiveFieldsValid(st)
          /\ st'.info_complete <=> FiveFieldsValid(st')
          /\ st'.needs_followup <=> ~st'.info_complete
          /\ st'.info_complete => st'.followup_question = None
          /\ ~st'.info_complete => st'.followup_question /= None]_vars

C1_Witness ==
    /\ pc = "normalize_info"
    /\ st.current_node = "analyze_conversation"
    /\ st.info_complete
    /\ st.departure_date = Today

Listed == SelectionOffers(st, cache).offers

RawShape == SelectionOffers(st, cache).is_amadeus_format

Choice == FirstInt(st.current_message)

InRange == Choice /= None /\ Val(Choice) >= 1 /\ Val(Choice) <= Len(Listed)

\* C3: with N formatted offers and a first standalone integer k in 1..N,
\* the selection step hands over selected_flight = k, the city of the final
\* arrival airport of the outbound leg of the offer whose offer_id is k, the
\* date of that leg's arrival as check-in and, for an offer with a return
\* leg, the date of the return leg's first departure as checkout; in the
\* example set offer 1 gives CDG, 2025-08-13 and 2025-08-20, and offers 3 and
\* 5 give the check-in 2025-08-14.
C3_SelectionHandoff ==
    [][(pc = "selection" /\ ~RawShape /\ InRange) =>
          LET k == Val(Choice)
              offer == Listed[k]
              example == st.formatted_results = Displayed(ExampleSet, <<2025, 8, 13>>)
          IN  /\ offer.offer_id = Some(k)
              /\ \A i \in 1..Len(Listed) : Listed[i].offer_id = Some(k) => i = k
              /\ hotel'.returned
              /\ hotel'.selected_flight = Some(k)
              /\ hotel'.city_code = Some(Val(offer.outbound).arrival_airport)
              /\ hotel'.checkin_date = IsoDate(offer.outbound_arrival_at)
              /\ offer.return_leg /= None =>
                     hotel'.checkout_date = IsoDate(offer.return_departure_at)
              /\ (example /\ k = 1) =>
                     /\ hotel'.city_code = Some("CDG")
                     /\ hotel'.checkin_date = <<2025, 8, 13>>
                     /\ hotel'.checkout_date = <<2025, 8, 20>>
              /\ (example /\ k \in {3, 5}) =>
                     hotel'.checkin_date = <<2025, 8, 14>>]_vars

C3_Witness ==
    /\ st.current_node = "selection"
    /\ st.formatted_results = Displayed(ExampleSet, <<2025, 8, 13>>)
    /\ hotel.selected_flight = Some(1)
    /\ hotel.city_code = Some("CDG")
    /\ hotel.checkin_date = <<2025, 8, 13>>
    /\ hotel.checkout_date = <<2025, 8, 20>>

\* C4: with offers to choose from and a message that has no standalone
\* integer, or whose first one is 0 or larger than the number N of offers,
\* the selection step returns a prompt only: needs_followup is true, the
\* prompt has one line per offer with its id, route and price, no
\* selected_flight, city_code, checkin_date or checkout_date is handed over,
\* and formatted_results and the cache are left as they were.
C4_PromptOnly ==
    [][(pc = "selection" /\ Listed /= <<>> /\ ~InRange) =>
          LET prompt == Val(st'.followup_question)
          IN  /\ st'.needs_followup
              /\ st'.followup_question /= None
              /\ prompt.text = "Please enter the flight offer ID you prefer (e.g., 1 or 2)."
              /\ Len(prompt.lines) = Len(Listed)
              /\ \A i \in 1..Len(Listed) :
                    IF RawShape
                    THEN /\ prompt.lines[i].offer_id = Listed[i].id
                         /\ Val(prompt.lines[i].route)[1] =
                                Listed[i].itineraries[1].segments[1].departure.iataCode
                         /\ Listed[i].price /= None =>
                                prompt.lines[i].price = Listed[i].price
                    ELSE /\ prompt.lines[i].offer_id = Listed[i].offer_id
                         /\ prompt.lines[i].route =
                                Some(<<Val(Listed[i].outbound).departure_airport,
                                       Val(Listed[i].outbound).arrival_airport>>)
                         /\ prompt.lines[i].price = Listed[i].price
              /\ hotel'.selected_flight = None
              /\ hotel'.city_code = None
              /\ hotel'.checkin_date = None
              /\ hotel'.checkout_date = None
              /\ st'.formatted_results = st.formatted_results
              /\ cache' = cache
              /\ pc' = "END"]_vars

C4_Witness ==
    /\ pc = "END"
    /\ st.current_node = "selection"
    /\ FirstInt(st.current_message) = Some(6)
    /\ st.followup_question /= None
    /\ Len(Val(st.followup_question).lines) = 5
    /\ hotel.selected_flight = None

\* C5: no offers on the state or in the cache, a choice that is absent or
\* out of range, and a choice in range that no offer carries as its id each
\* end the turn with needs_followup true and no offer selected, and each
\* leaves its own follow-up text, different from the other two.
C5_ThreeFailures ==
    [][pc = "selection" =>
          LET none == Listed = <<>>
              absent == Listed /= <<>> /\ ~InRange
              unmatched ==
                  /\ Listed /= <<>> /\ InRange
                  /\ \A i \in 1..Len(Listed) :
                        (IF RawShape THEN Listed[i].id ELSE Listed[i].offer_id)
                            /= Choice
              text == Val(st'.followup_question).text
          IN  /\ (none \/ absent \/ unmatched) =>
                    /\ st'.needs_followup
                    /\ st'.followup_question /= None
                    /\ hotel'.selected_flight = None
                    /\ pc' = "END"
              /\ none => text = Val(QNoOffers).text
              /\ absent => text = Val(SelectionPrompt(<<>>, FALSE)).text
              /\ unmatched => text = Val(QBadId).text
              /\ Val(QNoOffers).text /= Val(QBadId).text
              /\ Val(QNoOffers).text /= Val(SelectionPrompt(<<>>, FALSE)).text
              /\ Val(QBadId).text /= Val(SelectionPrompt(<<>>, FALSE)).text]_vars

C5_Witness ==
    /\ pc = "END"
    /\ st.current_node = "selection"
    /\ IsAmadeus(st.formatted_results)
    /\ FirstInt(st.current_message) = Some(1)
    /\ st.followup_question = QBadId
    /\ hotel.selected_flight = None

RECURSIVE WithPrice(_, _)
\* the offers of a list that carry the price given, in the order of the list
WithPrice(offers, price) ==
    IF offers = <<>> THEN <<>>
    ELSE (IF Head(offers).price = price THEN <<Head(offers)>> ELSE <<>>)
             \o WithPrice(Tail(offers), price)

Unnumbered(offers) == [i \in 1..Len(offers) |-> [offers[i] EXCEPT !.offer_id = None]]

\* a is not dearer than b, an offer without a price being the dearest
NotDearer(a, b) ==
    \/ b.price = NotAvailable
    \/ a.price /= NotAvailable /\ Val(a.price) <= Val(b.price)

\* C6: the display step outputs the offers in non-decreasing price order,
\* offers of one price in the order they had in the merged input, and the
\* offer at position i carries offer_id i.
C6_RankedAndNumbered ==
    [][pc = "display_results" =>
          LET input == FormatAll(Flights(st))
              output == st'.formatted_results[2]
          IN  /\ \A i \in 1..Len(output) : output[i].offer_id = Some(i)
              /\ \A i, j \in 1..Len(output) :
                    i < j => NotDearer(output[i], output[j])
              /\ output /= <<>> =>
                    /\ Len(output) = Len(input)
                    /\ \A i \in 1..Len(input) :
                          WithPrice(Unnumbered(output), input[i].price)
                              = WithPrice(input, input[i].price)]_vars

\* equal prices from different days, and a merged input that is not in
\* price order
C6_Witness ==
    /\ pc = "summarize"
    /\ LET output == st.formatted_results[2]
           input == Flights(st)
       IN  /\ \E i, j \in 1..Len(output) :
                 /\ i < j
                 /\ output[i].price = output[j].price
                 /\ output[i].search_date /= output[j].search_date
           /\ \E i, j \in 1..Len(input) :
                 /\ i < j
                 /\ input[i].price = Some(23576)
                 /\ input[j].price = Some(12139)

\* C7: the request for day k carries the outbound date D+k and the return
\* date D+k+d, and no two requests carry the same outbound date.
C7_EachDayItsOwnDates ==
    \A i \in 1..Len(sent) :
        sent[i].kind = "flight-offers" =>
            LET legs == sent[i].json.originDestinations
            IN  /\ legs[1].date = sent[i].day
                /\ (Len(legs) > 1 /\ TruthyNum(st.duration)) =>
                       legs[2].date = PlusDays(sent[i].day, Val(st.duration))
                /\ \A j \in 1..Len(sent) :
                       j /= i => sent[j].json.originDestinations[1].date /= legs[1].date

RECURSIVE OfDay(_, _)
\* the offers of a list that are tagged with the day given
OfDay(offers, day) ==
    IF offers = <<>> THEN <<>>
    ELSE (IF Head(offers).search_date = day THEN <<Head(offers)>> ELSE <<>>)
             \o OfDay(Tail(offers), day)

\* what day k owes the merged result: the first five offers of its reply,
\* nothing when the query failed
Owed(k) ==
    LET reply == Val(search.replies[k])
        n == IF Len(reply.data) < 5 THEN Len(reply.data) ELSE 5
    IN  IF reply.ok
        THEN [i \in 1..n |-> [reply.data[i] EXCEPT !.search_date = search.bodies[k].day]]
        ELSE <<>>

\* C8: whichever of the three day-queries fail, the search step raises
\* nothing, and result.data holds, for every day, the first five offers of
\* the day's reply when the query succeeded and none when it failed, and
\* nothing else.
C8_PartialFailure ==
    /\ search.phase /= "none" => raised = "none"
    /\ search.phase = "joined" =>
          LET data == Val(st.result).data
              days == 1..Len(search.bodies)
          IN  /\ \A k \in days : OfDay(data, search.bodies[k].day) = Owed(k)
              /\ \A i \in 1..Len(data) :
                    \E k \in days : data[i].search_date = search.bodies[k].day

\* one day failed, one returned six offers, one returned fewer
C8_Witness ==
    /\ search.phase = "joined"
    /\ \E a, b, c \in 1..Len(search.bodies) :
          /\ ~Val(search.replies[a]).ok
          /\ Len(Val(search.replies[b]).data) = 6
          /\ Len(Val(search.replies[c]).data) = 2
    /\ Len(Val(st.result).data) = 7

\* C9: the request built has a first leg from origin to destination on the
\* departure date, with a duration a second leg back on the departure date
\* plus that many days (2025-08-13 plus 7 is 2025-08-20), one ADULT
\* traveler, one cabin restriction that names the ids of all legs, and
\* maxFlightOffers 5.
C9_RequestBody ==
    (pc = "get_auth" /\ st.current_node = "format_body") =>
        LET body == Val(st.body)
            legs == body.originDestinations
            date == st.normalized_departure_date
            return_on(from, days, to) ==
                (date = from /\ st.duration = Some(days)) => legs[2].date = to
        IN  /\ legs[1].originLocationCode = st.origin_location_code
            /\ legs[1].destinationLocationCode = st.destination_location_code
            /\ legs[1].date = date
            /\ Len(legs) = IF st.duration = None THEN 1 ELSE 2
            /\ st.duration /= None =>
                  /\ legs[2].originLocationCode = st.destination_location_code
                  /\ legs[2].destinationLocationCode = st.origin_location_code
                  /\ Strptime(legs[2].date) = Strptime(date) + Val(st.duration)
                  /\ ParsesAsDate(legs[2].date)
            /\ return_on(<<2025, 8, 13>>, 7, <<2025, 8, 20>>)
            /\ return_on(<<2025, 12, 30>>, 7, <<2026, 1, 6>>)
            /\ return_on(<<2026, 2, 27>>, 2, <<2026, 3, 1>>)
            /\ return_on(<<2028, 2, 25>>, 4, <<2028, 2, 29>>)
            /\ body.travelers = <<[id |-> "1", travelerType |-> "ADULT"]>>
            /\ Len(body.cabinRestrictions) = 1
            /\ Len(body.cabinRestrictions[1].originDestinationIds) = Len(legs)
            /\ \A i \in 1..Len(legs) :
                  body.cabinRestrictions[1].originDestinationIds[i] = legs[i].id
            /\ \A i, j \in 1..Len(legs) : legs[i].id = legs[j].id => i = j
            /\ body.maxFlightOffers = 5

C9_Witness ==
    /\ pc = "get_auth"
    /\ st.current_node = "format_body"
    /\ st.normalized_departure_date = <<2025, 8, 13>>
    /\ st.duration = Some(7)
    /\ Val(st.body).originDestinations[2].date = <<2025, 8, 20>>

\* C10: no step of a turn raises, whatever the external calls return.
C10_NoStepRaises == raised = "none"

TripFields == {"departure_date", "origin", "destination", "cabin_class", "duration"}

\* the token request of this turn has failed
TokenFailed(s) == InSeq("get_auth", s.node_trace) /\ s.access_token = Absent

\* C11: a failed token request changes neither the trip fields, the request
\* body nor the cache, and the turn ends with needs_followup true and the
\* apology for the flight search service as the answer to the user.
C11_TokenFailureApology ==
    [][/\ (pc = "get_auth" /\ TokenFailed(st')) =>
             /\ \A f \in TripFields : st'[f] = st[f]
             /\ st'.body = st.body
             /\ cache' = cache
             /\ st'.needs_followup
             /\ st'.followup_question = QToken
       /\ (TurnOver /\ TokenFailed(st)) =>
             /\ raised = "none"
             /\ st.needs_followup
             /\ response'.kind = "question"
             /\ response'.question = QToken
             /\ cache' = cache]_vars

\* C12: a thread is asked at most three follow-up questions in a row with
\* the trip information incomplete, and the turn after three such questions
\* runs the search steps whatever is still missing.
C12_ThreeFollowupsAtMost ==
    /\ \A t \in Threads : store[t].asked <= 3
    /\ (TurnOver /\ store[st.thread_id].asked >= 3) =>
          InSeq("normalize_info", st.node_trace)

\* C13: the cache entry of a thread is the formatted, numbered offer list of
\* the thread's most recent search that returned at least one offer: the
\* display step of such a search leaves its list in the entry, no other step
\* changes the cache, and a numeric reply in a turn whose state carries no
\* offers picks its offer from that entry.
C13_CacheIsLatestFound ==
    [][/\ pc = "display_results" =>
             IF Flights(st) /= <<>>
             THEN /\ OffersOnState(cache'[st.thread_id])
                        = OffersOnState(st'.formatted_results)
                  /\ \A i \in 1..Len(OffersOnState(cache'[st.thread_id])) :
                        OffersOnState(cache'[st.thread_id])[i].offer_id = Some(i)
             ELSE cache' = cache
       /\ pc /= "display_results" => cache' = cache
       /\ (/\ pc = "selection"
           /\ OffersOnState(st.formatted_results) = <<>>
           /\ hotel'.selected_flight /= None) =>
             LET entry == OffersOnState(cache[st.thread_id])
                 k == Val(hotel'.selected_flight)
             IN  /\ FirstInt(st.current_message) = Some(k)
                 /\ k \in 1..Len(entry)
                 /\ entry[k].offer_id = Some(k)
                 /\ hotel'.city_code = Some(Val(entry[k].outbound).arrival_airport)
                 /\ hotel'.checkin_date = IsoDate(entry[k].outbound_arrival_at)]_vars

\* C14: when the thread's latest search found no offer (its answer, the
\* "No flights found" question, is the last assistant message of the
\* conversation), a numeric reply selects no offer: the offers of an earlier
\* search are no longer there to choose from.
C14_NoStaleSelection ==
    (hotel.returned /\ store[st.thread_id].last = "no_flights") =>
        /\ hotel.selected_flight = None
        /\ st.followup_question = QNoOffers

\* C15: after a thread has been reset (its conversation holds no assistant
\* message any more), a numeric reply in that thread selects nothing and is
\* answered with the "couldn't find flight offers to choose from" text.
C15_ResetDiscardsOffers ==
    (hotel.returned /\ store[st.thread_id].last = "none") =>
        /\ hotel.selected_flight = None
        /\ st.followup_question = QNoOffers

\* what check_selection_complete calls complete
HotelParamsPresent(h) ==
    h.city_code /= None /\ h.checkin_date /= None /\ h.checkout_date /= None

\* C16: after the selection step, either city_code, checkin_date and
\* checkout_date are all present and the hotel steps run in the order
\* get_city_IDs, get_hotel_offers, display_hotels, summarize_hotels, or the
\* turn ends with needs_followup true and a non-empty followup_question.
C16_HotelStepsOrQuestion ==
    [][ /\ pc = "selection" =>
            IF HotelParamsPresent(hotel')
            THEN pc' = "get_city_IDs"
            ELSE /\ pc' = "END"
                 /\ st'.needs_followup
                 /\ st'.followup_question /= None
        /\ pc = "get_city_IDs" => pc' = "get_hotel_offers"
        /\ pc = "get_hotel_offers" => pc' = "display_hotels"
        /\ pc = "display_hotels" => pc' = "summarize_hotels"
        /\ pc = "summarize_hotels" => pc' = "END" ]_vars

\* the offer the selection step found for the chosen number
ChosenOffer ==
    LET chosen == SelectionOffers(st, cache)
    IN  Val(FindOffer(chosen.offers, Val(hotel.selected_flight),
                      chosen.is_amadeus_format))

\* the date of the first return segment's departure, None without one
ReturnDeparture(offer) ==
    IF "itineraries" \in DOMAIN offer
    THEN IF Len(offer.itineraries) > 1 /\ offer.itineraries[2].segments /= <<>>
         THEN SubSeq(offer.itineraries[2].segments[1].departure.at, 1, 3)
         ELSE None
    ELSE IF offer.return_departure_at /= None
         THEN SubSeq(offer.return_departure_at, 1, 3)
         ELSE None

\* C17: once an offer is chosen, checkout_date is the date of the first
\* return segment's departure; without one, departure_date plus duration
\* days (a duration of 0 counts as none); without those, check-in plus one
\* day; and with no check-in either, no checkout_date and no checkin_date
\* are set.
C17_CheckoutFallbacks ==
    hotel.selected_flight /= None =>
        hotel.checkout_date =
            IF ReturnDeparture(ChosenOffer) /= None THEN ReturnDeparture(ChosenOffer)
            ELSE IF st.departure_date /= None /\ TruthyNum(st.duration)
            THEN PlusDays(st.departure_date, Val(st.duration))
            ELSE IF hotel.checkin_date /= None THEN PlusDays(hotel.checkin_date, 1)
            ELSE None

\* a one-way offer arriving on the 14th, chosen for a 7-day trip from the 13th
C17_Witness ==
    /\ hotel.selected_flight /= None
    /\ ReturnDeparture(ChosenOffer) = None
    /\ st.departure_date = <<2025, 8, 13>> /\ st.duration = Some(7)
    /\ hotel.checkin_date = <<2025, 8, 14>>
    /\ hotel.checkout_date = <<2025, 8, 20>>

\* C18: every hotel-offers request carries at most 20 hotel ids, and its
\* checkInDate and checkOutDate are the checkin_date and checkout_date the
\* selection step derived from the chosen flight.
C18_OffersForDerivedStay ==
    \A i \in 1..Len(sent) :
        sent[i].kind = "hotel-offers" =>
            /\ Len(sent[i].hotelIds) <= 20
            /\ sent[i].checkInDate = hotel.checkin_date
            /\ sent[i].checkOutDate = hotel.checkout_date

\* C19: a failed hotel-by-city lookup or hotel-offer request raises nothing
\* and leaves the step's result list empty, and the response of a turn that
\* ends after such a failure shows the user the step's apology text.
C19_HotelFailureApology ==
    [][ /\ (pc = "get_city_IDs" /\ st'.followup_question = QHotelsCity) =>
              (raised' = "none" /\ hotel'.hotel_id = Some(<<>>))
        /\ (pc = "get_hotel_offers" /\ st'.followup_question = QHotelOffers) =>
              (raised' = "none" /\ hotel'.hotels_offers = Some(<<>>))
        /\ (pc = "END" /\ st.followup_question = QHotelOffers) =>
              (response'.kind = "question" /\ response'.question = QHotelOffers) ]_vars

\* C20: a search whose three day-queries all succeed with zero offers ends
\* with formatted_results empty, needs_followup true and the "No flights
\* found" question; a search whose day-queries all fail ends with a question
\* that is not the "No flights found" one.
C20_EmptyIsNotFailure ==
    (pc = "END" /\ search.phase = "joined") =>
        LET days == 1..Len(search.bodies)
        IN  /\ (\A k \in days : Val(search.replies[k]).ok
                                  /\ Val(search.replies[k]).data = <<>>) =>
                  /\ OffersOnState(st.formatted_results) = <<>>
                  /\ st.needs_followup
                  /\ st.followup_question = QNoFlights
            /\ (\A k \in days : ~Val(search.replies[k]).ok) =>
                  /\ st.needs_followup
                  /\ st.followup_question /= None
                  /\ st.followup_question /= QNoFlights

\* C21: in every state of a turn, after whichever step, info_complete is
\* true only if the five trip fields are present and departure_date parses
\* and is not before today.
C21_InfoCompleteOnlyIfValid ==
    st.info_complete => FiveFieldsValid(st)

\* the codes of the names used here, as the source's table and Python's
\* upper() give them
InTable == [n \in {"New York", "Paris"} |-> IF n = "Paris" THEN "CDG" ELSE "JFK"]
Upper3 == [n \in {"cdg", "JFK", "Atlanta"} |->
              CASE n = "cdg" -> "CDG" [] n = "JFK" -> "JFK" [] OTHER -> "ATL"]

\* the priority order of the statement: code, table, model, first letters
TableFirst(location, answer) ==
    IF location \in {"cdg", "JFK"} THEN Upper3[location]
    ELSE IF location \in DOMAIN InTable THEN InTable[location]
    ELSE IF answer /= None THEN Val(answer)
    ELSE Upper3[location]

\* the order with the model asked before the table
AnswerFirst(location, answer) ==
    IF location \in {"cdg", "JFK"} THEN Upper3[location]
    ELSE IF answer /= None THEN Val(answer)
    ELSE IF location \in DOMAIN InTable THEN InTable[location]
    ELSE Upper3[location]

\* C22 as stated: a three-letter input comes back upper-cased; a name of the
\* static table gives the table's code whatever the model answers; the
\* model's answer is used only for a name outside the table, and the first
\* three letters only when that fails too.
C22_TableBeforeModel ==
    [][pc = "normalize_info" =>
          /\ st'.origin_location_code =
                Some(TableFirst(Val(st.origin), lookup'.origin))
          /\ st'.destination_location_code =
                Some(TableFirst(Val(st.destination), lookup'.destination))]_vars

\* C22 amended: a three-letter input comes back upper-cased; otherwise the
\* model's answer is returned whenever it holds a three-letter code, the
\* table's code only when the model gave none, and the first three letters
\* upper-cased when the name is not in the table either.
C22_ModelBeforeTable ==
    [][pc = "normalize_info" =>
          /\ st'.origin_location_code =
                Some(AnswerFirst(Val(st.origin), lookup'.origin))
          /\ st'.destination_location_code =
                Some(AnswerFirst(Val(st.destination), lookup'.destination))]_vars

\* Paris with the model answering LHR, Atlanta with no answer, and a code
C22_Witness ==
    /\ pc = "format_body"
    /\ st.origin = Some("Paris") /\ lookup.origin = Some("LHR")
    /\ st.origin_location_code = Some("LHR")
    /\ st.destination = Some("Atlanta") /\ lookup.destination = None
    /\ st.destination_location_code = Some("ATL")

\* the validation step keeps the date: it reads as YYYY-MM-DD and is today
\* or later
DateKept(s) ==
    /\ ParsesAsDate(s.departure_date)
    /\ Strptime(s.departure_date) >= Strptime(Today)

\* the validation step changes none of the four other trip fields
OtherFieldsKept ==
    /\ st'.origin = st.origin
    /\ st'.destination = st.destination
    /\ st'.cabin_class = st.cabin_class
    /\ st'.duration = st.duration

\* the step the graph runs next is selection, and it will hand an offer on
\* rather than ask
SelectionGoesOn ==
    /\ pc' = "selection"
    /\ ~selection_nodes(Traced(st', "selection"), cache).needs_followup

\* C23 as stated: the validation step keeps a departure_date that parses and
\* is today or later, replaces any other by None, after which the turn ends
\* with a follow-up question, and never changes origin, destination,
\* cabin_class or duration.
C23_RejectedDateEndsTurn ==
    [][pc = "analyze_conversation" =>
          /\ OtherFieldsKept
          /\ (st.departure_date /= None /\ DateKept(st)) =>
                st'.departure_date = st.departure_date
          /\ (st.departure_date /= None /\ ~DateKept(st)) =>
                /\ st'.departure_date = None
                /\ st'.needs_followup
                /\ st'.followup_question /= None
                /\ ~SelectionGoesOn]_vars

\* C23 amended: as above, except that after a rejected date the turn ends
\* with the follow-up only when the message holds no standalone number or the
\* thread has no offers; otherwise the selection step runs next.
C23_RejectedDateAsksOrSelects ==
    [][pc = "analyze_conversation" =>
          /\ OtherFieldsKept
          /\ (st.departure_date /= None /\ DateKept(st)) =>
                st'.departure_date = st.departure_date
          /\ (st.departure_date /= None /\ ~DateKept(st)) =>
                /\ st'.departure_date = None
                /\ ~st'.info_complete
                /\ st'.needs_followup
                /\ st'.followup_question /= None
                /\ IF /\ FirstInt(st.current_message) /= None
                      /\ OffersOnState(cache[st.thread_id]) /= <<>>
                   THEN pc' = "selection"
                   ELSE pc' = "END"]_vars

\* the validation step has left no date beside four populated fields, and
\* the selection step that runs next will hand the chosen offer on
C23_Witness ==
    /\ pc = "selection"
    /\ st.current_node = "analyze_conversation"
    /\ st.departure_date = None
    /\ st.origin /= None /\ st.destination /= None
    /\ st.cabin_class /= None /\ st.duration /= None
    /\ st.needs_followup
    /\ ~selection_nodes(Traced(st, "selection"), cache).needs_followup

\* C24: for a day-and-month text without a year, validate_date returns that
\* day of the current year when it is today or later, and that day of the
\* next year when it has already passed (on 2025-03-10, "Aug 20" gives
\* 2025-08-20 and "Jan 5" gives 2026-01-05).
C24_YearRollover ==
    (pc = "validated" /\ Len(call.date_str) = 2) =>
        LET this_year == <<call.today[1]>> \o call.date_str
            next_year == <<call.today[1] + 1>> \o call.date_str
        IN  /\ (ParsesAsDate(this_year)
                  /\ Strptime(this_year) >= Strptime(call.today)) =>
                   call.result = [valid |-> TRUE, formatted_date |-> this_year]
            /\ (ParsesAsDate(this_year) /\ ParsesAsDate(next_year)
                  /\ Strptime(this_year) < Strptime(call.today)) =>
                   call.result = [valid |-> TRUE, formatted_date |-> next_year]

\* the price of the offer reads as a number
Priced(offer) == offer.price /= NotAvailable /\ offer.price /= JunkPrice

\* C25: of the offers the display step is given, those whose price is missing
\* or is no number come after all numerically priced ones and carry an offer
\* id like them, and every numerically priced offer is displayed.
C25_UnpricedLast ==
    [][pc = "display_results" =>
          LET input == FormatAll(Flights(st))
              output == OffersOnState(st'.formatted_results)
          IN  /\ Len(output) = Len(input)
              /\ \A i \in 1..Len(output) : output[i].offer_id = Some(i)
              /\ \A i, j \in 1..Len(output) :
                    (~Priced(output[i]) /\ Priced(output[j])) => j < i
              /\ \A k \in 1..Len(input) :
                    Priced(input[k]) =>
                        \E i \in 1..Len(output) :
                            Unnumbered(output)[i] = input[k]]_vars

TripFieldNames == {"departure_date", "origin", "destination", "cabin_class", "duration"}

\* the steps of the search path, by the value of pc at which each runs
WorkflowSteps ==
    {"llm_conversation", "analyze_conversation", "normalize_info", "format_body",
     "get_auth", "search_flights", "display_results", "summarize"}

\* C26 as stated: across every step a populated trip field keeps its value,
\* except that the extraction step may replace it by a non-empty value.
C26_FieldsNeverErased ==
    [][(pc \in WorkflowSteps) =>
          \A f \in TripFieldNames :
              (st[f] /= None) =>
                  ( \/ st'[f] = st[f]
                    \/ (pc = "llm_conversation" /\ st'[f] /= None) )]_vars

\* C26 amended: the same, with the one exception that the validation step
\* replaces a departure_date that does not parse or lies before today by
\* None.
C26_OnlyRejectedDateErased ==
    [][(pc \in WorkflowSteps) =>
          \A f \in TripFieldNames :
              (st[f] /= None) =>
                  ( \/ st'[f] = st[f]
                    \/ (pc = "llm_conversation" /\ st'[f] /= None)
                    \/ ( /\ pc = "analyze_conversation" /\ f = "departure_date"
                         /\ ~DateKept(st) /\ st'[f] = None ) )]_vars

\* a turn entered with origin Atlanta, destination cdg and a date of
\* yesterday: the reply named only Paris, which replaced cdg, Atlanta was
\* kept, and the validation step erased the date
C26_Witness ==
    /\ pc = "END"
    /\ st.current_node = "analyze_conversation"
    /\ st.origin = Some("Atlanta")
    /\ st.destination = Some("Paris")
    /\ st.departure_date = None

\* C27: every offer of the merged result carries as search_date the
\* outbound date of the request that was posted for the day-query whose
\* reply held it.
C27_TaggedWithRequestDate ==
    search.phase = "joined" =>
        \A k \in 1..Len(search.bodies) :
            \A i \in 1..Len(search.returned[k]) :
                \A r \in 1..Len(sent) :
                    (sent[r].kind = "flight-offers"
                       /\ sent[r].day = search.bodies[k].day) =>
                        search.returned[k][i].search_date
                            = sent[r].json.originDestinations[1].date

\* what the store holds for a thread, an empty list for a thread it has not
History(conversations, t) ==
    IF conversations[t].present THEN conversations[t].messages ELSE <<>>

\* C28: after any sequence of add_message and clear_conversation calls,
\* get_conversation(t) returns one system message followed by the messages
\* added to t since its last clear, in the order they were added, and an
\* empty list for a thread without messages; a call on one thread leaves
\* the history of the other thread as it was.
C28_HistoryInOrder ==
    /\ [](\A t \in Threads :
             LET h == History(store, t)
             IN  h /= <<>> =>
                    /\ Len(h) >= 2
                    /\ h[1].role = "system"
                    /\ \A i \in 2..Len(h) : h[i].role /= "system")
    /\ [][pc = "conversation_store" =>
            LET t == call'.thread_id
                before == History(store, t)
                after == History(store', t)
            IN  /\ \A u \in Threads \ {t} : History(store', u) = History(store, u)
                /\ call'.op = "add_message" =>
                      /\ before = <<>> => after = <<SystemMessage, call'.message>>
                      /\ before /= <<>> => after = Append(before, call'.message)
                /\ call'.op = "clear_conversation" => after = <<>>
                /\ call'.op = "get_conversation" =>
                      (after = before /\ call'.result = before)]_vars

\* thread t2 was cleared after it had messages; thread t1 is read and still
\* gives its system message and its two messages in the order added
C28_Witness ==
    /\ call.op = "get_conversation"
    /\ call.thread_id = "t1"
    /\ call.result = << SystemMessage, [role |-> "user", content |-> "b"],
                        [role |-> "assistant", content |-> "a"] >>
    /\ ~store["t2"].present

\* C29: the state with which a turn starts holds the trip fields the thread
\* collected before: when the thread's previous turn ran a search (it was
\* answered "No flights found", so all five fields had been collected), the
\* five fields are populated when the next turn starts.
C29_FieldsCarriedOver ==
    (pc = "llm_conversation" /\ store[st.thread_id].last = "no_flights") =>
        \A f \in TripFieldNames : st[f] /= None

\* the place of a step on the longest path of the graph
Position(step) ==
    CASE step = "llm_conversation" -> 1
      [] step = "analyze_conversation" -> 2
      [] step \in {"normalize_info", "selection"} -> 3
      [] step \in {"format_body", "get_city_IDs"} -> 4
      [] step \in {"get_auth", "get_hotel_offers"} -> 5
      [] step \in {"search_flights", "display_hotels"} -> 6
      [] step \in {"display_results", "summarize_hotels"} -> 7
      [] step = "summarize" -> 8
      [] OTHER -> 9

\* the day-queries of search_flights that have returned
Returned == IF search.phase = "none" THEN 0 ELSE 1 + Len(search.done)

\* C30: every turn that starts comes to its end; no step is followed by
\* itself or by an earlier step of the path, so each runs at most once, and
\* END comes after at most eight steps (inside search_flights the three
\* day-queries return one by one; a step that raises ends the turn at once).
C30_TurnTerminates ==
    /\ [][Position(pc) <= 8 =>
            \/ Position(pc') > Position(pc)
            \/ /\ pc = "search_flights" /\ pc' = pc
               /\ Returned' > Returned /\ Returned' <= 1 + Len(DayOffsets)]_vars
    /\ (pc = "llm_conversation") ~> (pc \in {"END", "raised"})

\* the longest path has been run, each of its eight steps once
C30_Witness ==
    /\ pc = "END"
    /\ st.node_trace = << "llm_conversation", "analyze_conversation", "normalize_info",
                          "format_body", "get_auth", "search_flights",
                          "display_results", "summarize" >>

\* C31: the search step leaves the request body as format_body built it:
\* once it has run, the first leg of state.body is dated with the user's
\* departure date and the second with that date plus the duration.
C31_BodyLeftAsBuilt ==
    (search.phase /= "none" /\ st.body /= None) =>
        LET legs == Val(st.body).originDestinations
        IN  /\ legs[1].date = st.normalized_departure_date
            /\ (Len(legs) > 1 /\ TruthyNum(st.duration)) =>
                   legs[2].date = PlusDays(st.normalized_departure_date, Val(st.duration))

\* C32: an offer chosen in the raw provider shape hands over what the same
\* offer hands over in the display shape: the city of the arrival airport of
\* the outbound leg's final segment, the check-in date and the checkout date.
C32_BothShapesAgree ==
    [][(pc = "selection" /\ RawShape /\ InRange
          /\ FindOffer(Listed, Val(Choice), TRUE) /= None) =>
          LET raw == Val(FindOffer(Listed, Val(Choice), TRUE))
              shown == FormatOffer(raw)
              airport == Val(shown.outbound).arrival_airport
              other == HotelState(Traced(st, "selection"), Val(Choice), shown, FALSE)
          IN  /\ hotel'.city_code =
                     IF CityOf(st.formatted_results, airport) /= None
                     THEN CityOf(st.formatted_results, airport)
                     ELSE Some(airport)
              /\ hotel'.checkin_date = other.checkin_date
              /\ hotel'.checkout_date = other.checkout_date]_vars

\* the day-queries in the order of their days
DayOrder == [k \in 1..Len(DayOffsets) |-> k]

\* C33: the offers shown and their offer ids are those the display step
\* gives for the replies merged in the order of the days, in whichever order
\* the three day-queries have completed.
C33_IdsWhateverTheOrder ==
    (pc \in {"summarize", "END"} /\ search.phase = "joined") =>
        st.formatted_results =
            display_results_node(
                [st EXCEPT !.result = Some([data |-> Merged(search.returned, DayOrder)])]
            ).formatted_results

\* how often x is in seq
Count(seq, x) == Cardinality({i \in 1..Len(seq) : seq[i] = x})

\* C34: the search step writes state.result once, when all three
\* day-queries have returned; the display step never starts while a query
\* is out; and result.data holds every offer as often as the replies merged
\* in day order do, whatever the order of completion.
C34_MergedOnceAfterJoin ==
    /\ [](/\ (search.phase = "fetching") => (pc = "search_flights" /\ st.result = None)
          /\ (search.phase = "joined") =>
                LET data == Val(st.result).data
                    in_day_order == Merged(search.returned, DayOrder)
                IN  /\ Len(search.done) = Len(DayOffsets)
                    /\ Len(data) = Len(in_day_order)
                    /\ \A i \in 1..Len(data) :
                          Count(data, data[i]) = Count(in_day_order, data[i]))
    /\ [][(st'.result /= st.result) =>
             /\ pc = "search_flights" /\ pc' = "display_results"
             /\ st.result = None
             /\ Len(search.done) = Len(DayOffsets)
             /\ search' = [search EXCEPT !.phase = "joined"]]_vars

\* the queries have completed in another order than that of their days, two
\* of them with offers, and the display step works on the merge
C34_Witness ==
    /\ pc = "display_results"
    /\ search.phase = "joined"
    /\ search.done = <<3, 1, 2>>
    /\ Len(search.returned[3]) = 5
    /\ Len(search.returned[1]) = 2
    /\ Len(Val(st.result).data) = 7

\* C35: every data request of a turn (flight offers, hotels by city, hotel
\* offers) is posted after the token step of that turn has obtained a token,
\* and carries that token as its bearer.
C35_TokenBeforeDataCall ==
    \A i \in 1..Len(sent) :
        sent[i].kind \in {"flight-offers", "hotels-by-city", "hotel-offers"} =>
            /\ Ran("get_auth")
            /\ st.access_token = Some("token")
            /\ sent[i].bearer = st.access_token

\* C36: the cache entry of a thread changes only when display_results runs
\* in a turn of that thread; and a turn of a thread that has no entry reads
\* the cache without raising and finds no offers to select from.
C36_CacheWrittenByOwnDisplay ==
    [][/\ \A t \in Threads :
             (cache'[t] /= cache[t]) =>
                 /\ pc = "display_results" /\ pc' = "summarize"
                 /\ st.thread_id = t
                 /\ cache'[t] = st'.formatted_results
       /\ (pc = "analyze_conversation" /\ cache[st.thread_id] = None) =>
             /\ raised' = "none"
             /\ pc' /= "selection"
       /\ (pc = "selection" /\ cache[st.thread_id] = None
             /\ OffersOnState(st.formatted_results) = <<>>) =>
             /\ raised' = "none"
             /\ st'.followup_question = QNoOffers]_vars

\* a turn of the second thread has written its entry beside the entry of
\* the first, and a later choice by number in the first thread still finds
\* the first thread's own offers
C36_Witness ==
    /\ pc = "selection"
    /\ st.thread_id = "t1"
    /\ cache["t1"] /= None /\ cache["t2"] /= None
    /\ Len(cache["t1"][2]) = 1 /\ Len(cache["t2"][2]) = 3

\* the table of the last response, as the user of the thread sees it
ShownTable == format_flights_html(FlightResults(response.flights))

\* C37: every row of the offers table sent to the user shows in its #
\* column the offer_id under which the thread's cache entry holds the offer
\* of that row; the entry stays as it is until the selection step of the
\* thread's next turn, which resolves a number to the offer with that
\* offer_id.
C37_RowNumberIsOfferId ==
    /\ [](response.kind = "results" =>
            \A i \in 1..Len(ShownTable) :
                LET row == ShownTable[i]
                    found == FindOffer(OffersOnState(cache[response.thread]),
                                       row.number, FALSE)
                IN  /\ found /= None
                    /\ FlightResult(Val(found)) = row.flight)
    /\ [][(pc \in {"idle", "llm_conversation", "analyze_conversation"}) =>
              cache' = cache]_vars
    /\ [][(pc = "selection" /\ InRange) =>
              /\ Listed = OffersOnState(cache[st.thread_id])
              /\ FindOffer(Listed, Val(Choice), FALSE) /= None
              /\ hotel'.selected_flight = Choice
              /\ hotel'.checkin_date =
                     HotelState(Traced(st, "selection"), Val(Choice),
                                Val(FindOffer(Listed, Val(Choice), FALSE)),
                                FALSE).checkin_date]_vars

\* a table of three rows has been sent, its rows found for different days
C37_Witness ==
    /\ response.kind = "results"
    /\ Len(ShownTable) = 3
    /\ ShownTable[2].number = 2
    /\ ShownTable[1].flight.search_date /= ShownTable[2].flight.search_date

\* C38: when the hotel steps start, the checkout_date handed over is a
\* later day than the checkin_date.
C38_CheckoutAfterCheckin ==
    pc = "get_city_IDs" =>
        /\ ParsesAsDate(hotel.checkin_date) /\ ParsesAsDate(hotel.checkout_date)
        /\ Strptime(hotel.checkout_date) > Strptime(hotel.checkin_date)

\* C39: a result of validate_date that is valid never carries a
\* formatted_date before today, for a text with a year or without one.
C39_NeverBeforeToday ==
    (pc = "validated" /\ call.result.valid) =>
        Strptime(call.result.formatted_date) >= Strptime(call.today)

\* the offers of the merged list that the display step formats
WithItineraries(flights) == SelectSeq(flights, LAMBDA f : f.itineraries /= <<>>)

RECURSIVE TotalLen(_)
TotalLen(lists) == IF lists = <<>> THEN 0 ELSE Len(Head(lists)) + TotalLen(Tail(lists))

\* C40: the merged list holds, for each day, the first five offers of the
\* day's reply, fifteen at most, and drops none because another day has
\* returned the same itinerary; once the display step has formatted the
\* list, an itinerary returned for two days is shown as two offers with
\* different offer ids, each with the search date of its day.
C40_NoCrossDayDeduplication ==
    search.phase = "joined" =>
        LET data == Val(st.result).data
            days == 1..Len(search.bodies)
            shown == OffersOnState(st.formatted_results)
        IN
              /\ \A d \in days :
                  /\ Len(search.returned[d]) <= 5
                  /\ Val(search.replies[d]).ok =>
                         \/ Len(search.returned[d]) = Len(Val(search.replies[d]).data)
                         \/ Len(search.returned[d]) = 5
              /\ Len(data) = TotalLen(search.returned)
              /\ Len(data) <= 15
              /\ (pc \in {"summarize", "END"} /\ ~SortRaises(FormatAll(data))) =>
                    /\ Len(shown) = Len(WithItineraries(data))
                    /\ \A j, k \in days :
                          \A a \in 1..Len(search.returned[j]), b \in 1..Len(search.returned[k]) :
                              (/\ j /= k
                               /\ search.returned[j][a].itineraries /= <<>>
                               /\ search.returned[j][a].itineraries
                                      = search.returned[k][b].itineraries
                               /\ search.returned[j][a].price = search.returned[k][b].price) =>
                                  \E m, n \in 1..Len(shown) :
                                      /\ shown[m].offer_id /= shown[n].offer_id
                                      /\ shown[m].search_date = search.bodies[j].day
                                      /\ shown[n].search_date = search.bodies[k].day
                                      /\ [shown[m] EXCEPT !.offer_id = None]
                                             = FormatOffer(search.returned[j][a])
                                      /\ [shown[n] EXCEPT !.offer_id = None]
                                             = FormatOffer(search.returned[k][b])

\* two days have returned the same two itineraries and the third day six
\* offers: nine offers are shown
C40_Witness ==
    /\ pc = "summarize"
    /\ search.phase = "joined"
    /\ Val(search.replies[1]).data = <<ViaKef, Direct>>
    /\ Val(search.replies[2]).data = <<ViaKef, Direct>>
    /\ Len(Val(search.replies[3]).data) = 6
    /\ Len(OffersOnState(st.formatted_results)) = 9

====
